---- MODULE Spec2Model ----
(***************************************************************************)
(* Model of the mechanical-leg visualiser: the page's walk animation       *)
(* (animateWalk / resetValues / handleParamChange of the Home component)   *)
(* and the GLTF/GLB asset validator (gltf-utils).                          *)
(*                                                                         *)
(* Numbers.  The program computes with IEEE doubles.  The model keeps every *)
(* real quantity as an integer number of thousandths (Milli): an angle of  *)
(* -85 degrees is -85000, the smoothing factor 0.14 is 140.  Products are  *)
(* rounded to the nearest thousandth.  Times are integer milliseconds.     *)
(***************************************************************************)
EXTENDS Integers, Sequences, FiniteSets, TLC

VARIABLES
  params,        \* useState<LegParams>: the page's parameter record
  isAnimating,   \* useState(false)
  gltfError,     \* useState<string | null>: TRUE when an error message is shown
  animFrameRef,  \* useRef<number | null>: id of the scheduled callback, or NULL
  rafPending,    \* callbacks the browser holds for the next animation frame
  lastFrame,     \* history: input and output of the last callback delivered
  poseAtCall,    \* history: the record at the moment animateWalk was called
  lastEvent,     \* history: the last handler that ran
  sinceReset,    \* history: TRUE from a resetValues until the next user action
  disturbances,  \* number of stalled frames and slider edits so far (bounded)
  probe,         \* the clock of the phase-threshold specification
  file,          \* the File handed to analyzeGLTFFile
  validation,    \* the GLTFValidation it returned, or NoValidation
  files,         \* GLTFFileManager: useState<FileInfo[]>, the names uploaded
  analysis,      \* GLTFFileManager: useState<GLTFAnalysis | null>
  analyzing,     \* GLTFFileManager: handleFiles calls waiting on analyzeGLTF
  mainDoc,       \* history: the main file the shown analysis was made of
  batches,       \* number of upload batches so far (bounded)
  hasError,      \* useState(false): the page shows the full-screen fallback
  errorCountRef, \* useRef(0): window error events counted since mount
  gltfUrl,       \* useState(""): the url of the model shown
  localStorage,  \* the browser's entries "pierna:params" and "pierna:gltf"
  storedRef,     \* useStoredParams: useRef, the in-memory copy, or NoStored
  storageFull,   \* the browser refuses writes (quota used up, storage off)
  lastSave,      \* history: the last call of save or saveGltf
  refusedKeys,   \* history: the keys whose latest setItem call threw
  modelStatus,   \* CanvasScene: useState("loading" | "loaded" | "error")
  probing,       \* CanvasScene.findModel: index of the HEAD request in flight, or 0
  probes,        \* history: the HEAD requests answered so far, in order
  modelLoad,     \* GLTFModel: "none", "loading" (loader.load in flight), "loaded", "failed"
  animator,      \* a WalkingAnimator: its fields, the frames it has pending, a clock
  modelUrl,      \* useGLTFManager: useState(''), the object url of the model
  loading,       \* useGLTFManager: useState(false)
  loads,         \* useGLTFManager: loadFile calls waiting on analyzeGLTFFile
  lastLoad,      \* history: how the last loadFile call that completed ended
  objectUrls,    \* history: the object urls created, with their files, and those revoked
  lastArg,       \* history: the argument of the last call made on useStoredParams
  modal,         \* DataModal: its props and the current date, and the rubric it renders
  hookAnimating, \* useWalkingAnimation: useState(false), its isAnimating
  gltfModel,     \* GLTFModel: its url prop, gltf and bones state, the loads in flight
  panelStatus,  \* ControlPanel: useState("loading"), its modelStatus
  walkPose   \* history: the elapsed time and the pose of the last onUpdate call

vars == << params, isAnimating, gltfError, animFrameRef, rafPending, lastFrame,
           poseAtCall, lastEvent, sinceReset, disturbances, probe, file,
           validation, files, analysis, analyzing, mainDoc, batches,
           hasError, errorCountRef, gltfUrl, localStorage, storedRef,
           storageFull, lastSave, refusedKeys, modelStatus, probing, probes,
           modelLoad, animator, modelUrl, loading, loads, lastLoad, objectUrls,
           lastArg,
           modal, hookAnimating,
           gltfModel,
           panelStatus,
           walkPose >>

walkVars == << params, isAnimating, gltfError, animFrameRef, rafPending,
               lastFrame, poseAtCall, lastEvent, sinceReset, disturbances >>
probeVars == << probe >>
gltfVars == << file, validation >>
mgrVars == << files, analysis, analyzing, mainDoc, batches >>
\* The state of the components beside the page's walk animation, the phase
\* clock and the file handed to the validator.
errVars == << hasError, errorCountRef >>
storeVars == << gltfUrl, localStorage, storedRef, storageFull, lastSave,
               refusedKeys >>
sceneVars == << modelStatus, probing, probes, modelLoad >>
animVars == << animator >>
loaderVars == << modelUrl, loading, loads, lastLoad, objectUrls >>
hookVars == << animVars, loaderVars, lastArg >>
\* The components modelled on their own further down.
extraVars == << modal, hookAnimating, gltfModel, panelStatus, walkPose >>
notExtraVars == << walkVars, probeVars, gltfVars, mgrVars, errVars, sceneVars,
                  storeVars, hookVars >>
notPanelExtraVars == << modal, hookAnimating, gltfModel, walkPose >>
notModalExtraVars == << hookAnimating, gltfModel, panelStatus, walkPose >>
asideVars == << mgrVars, errVars, sceneVars, hookVars, extraVars >>
\* What the handlers of one component leave alone.
notMgrVars == << walkVars, probeVars, gltfVars, errVars, storeVars, sceneVars,
                hookVars, extraVars >>
notErrVars == << probeVars, gltfVars, mgrVars, sceneVars, hookVars, extraVars >>

----------------------------------------------------------------------------
(* Bounds of the model.                                                    *)

\* Stalled frames plus slider edits in one session.
MaxDisturbances == 1
\* Longest gap, in ms, between two ticks of the phase-threshold clock.
MaxProbeGap == 3
\* Largest number of entries of a buffers[] or images[] array.
MaxEntries == 2
\* Largest number of bytes of a binary file.
MaxBytes == 9

\* Gap between two animation frames, in ms: the regular one, and two stalls
\* (a hidden tab, a long task) long enough to step over a whole phase.
FrameGap == 130
StallGaps == {350, 650}

----------------------------------------------------------------------------
(* Arithmetic on thousandths.                                              *)

Milli == 1000
NULL == 0

Max(a, b) == IF a >= b THEN a ELSE b
Min(a, b) == IF a <= b THEN a ELSE b

\* x / d rounded to the nearest integer (d > 0).
Round(x, d) == (2 * x + d) \div (2 * d)

\* The product of two numbers held in thousandths.
Mul(a, b) == Round(a * b, Milli)

\* 1000 * sin(n * pi / 1200) for n = 0 .. 600, rounded.
SinTable ==
  << 0, 3, 5, 8, 10, 13, 16, 18, 21, 24, 26, 29, 31, 34, 37,
     39, 42, 44, 47, 50, 52, 55, 58, 60, 63, 65, 68, 71, 73, 76,
     78, 81, 84, 86, 89, 92, 94, 97, 99, 102, 105, 107, 110, 112, 115,
     118, 120, 123, 125, 128, 131, 133, 136, 138, 141, 143, 146, 149, 151, 154,
     156, 159, 162, 164, 167, 169, 172, 175, 177, 180, 182, 185, 187, 190, 193,
     195, 198, 200, 203, 205, 208, 210, 213, 216, 218, 221, 223, 226, 228, 231,
     233, 236, 239, 241, 244, 246, 249, 251, 254, 256, 259, 261, 264, 266, 269,
     271, 274, 276, 279, 282, 284, 287, 289, 292, 294, 297, 299, 302, 304, 307,
     309, 312, 314, 316, 319, 321, 324, 326, 329, 331, 334, 336, 339, 341, 344,
     346, 349, 351, 353, 356, 358, 361, 363, 366, 368, 371, 373, 375, 378, 380,
     383, 385, 388, 390, 392, 395, 397, 400, 402, 404, 407, 409, 412, 414, 416,
     419, 421, 423, 426, 428, 431, 433, 435, 438, 440, 442, 445, 447, 449, 452,
     454, 456, 459, 461, 463, 466, 468, 470, 473, 475, 477, 479, 482, 484, 486,
     489, 491, 493, 495, 498, 500, 502, 505, 507, 509, 511, 514, 516, 518, 520,
     522, 525, 527, 529, 531, 534, 536, 538, 540, 542, 545, 547, 549, 551, 553,
     556, 558, 560, 562, 564, 566, 569, 571, 573, 575, 577, 579, 581, 584, 586,
     588, 590, 592, 594, 596, 598, 600, 603, 605, 607, 609, 611, 613, 615, 617,
     619, 621, 623, 625, 627, 629, 631, 633, 635, 637, 639, 641, 643, 645, 647,
     649, 651, 653, 655, 657, 659, 661, 663, 665, 667, 669, 671, 673, 675, 677,
     679, 681, 683, 685, 686, 688, 690, 692, 694, 696, 698, 700, 702, 703, 705,
     707, 709, 711, 713, 714, 716, 718, 720, 722, 724, 725, 727, 729, 731, 733,
     734, 736, 738, 740, 741, 743, 745, 747, 748, 750, 752, 754, 755, 757, 759,
     760, 762, 764, 765, 767, 769, 771, 772, 774, 775, 777, 779, 780, 782, 784,
     785, 787, 789, 790, 792, 793, 795, 797, 798, 800, 801, 803, 804, 806, 807,
     809, 811, 812, 814, 815, 817, 818, 820, 821, 823, 824, 826, 827, 829, 830,
     831, 833, 834, 836, 837, 839, 840, 842, 843, 844, 846, 847, 849, 850, 851,
     853, 854, 855, 857, 858, 859, 861, 862, 863, 865, 866, 867, 869, 870, 871,
     872, 874, 875, 876, 878, 879, 880, 881, 883, 884, 885, 886, 887, 889, 890,
     891, 892, 893, 895, 896, 897, 898, 899, 900, 901, 903, 904, 905, 906, 907,
     908, 909, 910, 911, 912, 914, 915, 916, 917, 918, 919, 920, 921, 922, 923,
     924, 925, 926, 927, 928, 929, 930, 931, 932, 933, 934, 935, 935, 936, 937,
     938, 939, 940, 941, 942, 943, 944, 944, 945, 946, 947, 948, 949, 949, 950,
     951, 952, 953, 953, 954, 955, 956, 957, 957, 958, 959, 960, 960, 961, 962,
     962, 963, 964, 965, 965, 966, 967, 967, 968, 969, 969, 970, 971, 971, 972,
     972, 973, 974, 974, 975, 975, 976, 976, 977, 978, 978, 979, 979, 980, 980,
     981, 981, 982, 982, 983, 983, 984, 984, 985, 985, 986, 986, 986, 987, 987,
     988, 988, 988, 989, 989, 990, 990, 990, 991, 991, 991, 992, 992, 992, 993,
     993, 993, 994, 994, 994, 995, 995, 995, 995, 996, 996, 996, 996, 996, 997,
     997, 997, 997, 998, 998, 998, 998, 998, 998, 998, 999, 999, 999, 999, 999,
     999, 999, 999, 1000, 1000, 1000, 1000, 1000, 1000, 1000, 1000, 1000, 1000, 1000, 1000,
     1000 >>

\* Math.sin(n * pi / 1200) in thousandths, for any integer n.
SinPi(n) ==
  LET m == n % 2400
  IN  IF m <= 600 THEN SinTable[m + 1]
      ELSE IF m <= 1200 THEN SinTable[1200 - m + 1]
      ELSE IF m <= 1800 THEN -SinTable[m - 1200 + 1]
      ELSE -SinTable[2400 - m + 1]

----------------------------------------------------------------------------
(* The parameter record (LegParams) and its defaults.                      *)

defaultParams ==
  [ footLength |-> 26000, archHeight |-> 4000, heelRadius |-> 5000,
    toeCount |-> 5000, tibiaLength |-> 38000, femurLength |-> 45000,
    legThickness |-> 6000, kneeAngle |-> 5000, ankleAngle |-> -85000,
    hipAngle |-> 180000, footRotation |-> 0, stepAngle |-> 0,
    verticalShift |-> 0, springStiffness |-> 500, dampingFactor |-> 300 ]

\* The fields the animation writes.
AnimatedFields ==
  {"ankleAngle", "archHeight", "kneeAngle", "stepAngle", "verticalShift",
   "hipAngle"}

\* The slider edits the model draws from (key, value), each inside the
\* slider's range: a knee brought back near its rest angle (a drop of tens of
\* degrees when the walk has bent it), a shorter ankle angle, a longer foot.
SliderEdits ==
  { <<"kneeAngle", 6000>>, <<"ankleAngle", -20000>>, <<"footLength", 28000>> }

----------------------------------------------------------------------------
(* animateWalk: constants of its state object and its helpers.             *)

cycleDuration == 1200
totalCycles == 2
restoreDur == 450
plantSnapStrength == 920
tSmooth == 140

\* state.timings, in thousandths of a cycle.
timings ==
  [ heelStrike |-> 180, footFlat |-> 550, heelRise |-> 780, toeOff |-> 950 ]

lerp(a, b, t) == a + Mul(b - a, t)
clamp(v, a, b) == Max(a, Min(b, v))
easeInOut(t) ==
  IF t < 500 THEN Mul(2 * t, t) ELSE -Milli + Mul(4 * Milli - 2 * t, t)

\* cycleProgress = ((now - startTime) % cycleDur) / cycleDur.  The model keeps
\* the numerator: cp is the number of ms into the cycle, and cycleProgress is
\* the exact fraction cp / cycleDuration.  `now` is now - state.startTime.
cycleProgress(now) == now % cycleDuration

\* cycleProgress <= t and cycleProgress < t for a threshold t in thousandths,
\* compared exactly.
ProgressLeq(cp, t) == cp * Milli <= t * cycleDuration
ProgressLt(cp, t) == cp * Milli < t * cycleDuration

phaseMix(cp, start, end) ==
  IF ProgressLt(cp, start) THEN 0
  ELSE IF ~ProgressLeq(cp, end) THEN Milli
  ELSE Round((cp * Milli - start * cycleDuration) * Milli,
             (end - start) * cycleDuration)

\* The nominal phase decided from cycleProgress.
NominalPhaseStrict(cp) ==
  IF ProgressLt(cp, timings.heelStrike) THEN "heel-strike"
  ELSE IF ProgressLt(cp, timings.footFlat) THEN "foot-flat"
  ELSE IF ProgressLt(cp, timings.heelRise) THEN "heel-rise"
  ELSE IF ProgressLt(cp, timings.toeOff) THEN "toe-off"
  ELSE "swing"

NominalPhase(cp) ==
  IF ProgressLeq(cp, timings.heelStrike) THEN "heel-strike"
  ELSE IF ProgressLeq(cp, timings.footFlat) THEN "foot-flat"
  ELSE IF ProgressLeq(cp, timings.heelRise) THEN "heel-rise"
  ELSE IF ProgressLeq(cp, timings.toeOff) THEN "toe-off"
  ELSE "swing"

\* Per-phase guide angles of the ankle.
heelStrikeAngle(st, cp) ==
  lerp(st.startParams.ankleAngle, -6000,
       easeInOut(phaseMix(cp, 0, timings.heelStrike)))
flatAngle(cp) ==
  lerp(-6000, 6000, easeInOut(phaseMix(cp, timings.heelStrike, timings.footFlat)))
heelRiseAngle(cp) ==
  lerp(6000, 10000, easeInOut(phaseMix(cp, timings.footFlat, timings.heelRise)))
toeOffAngle(cp) ==
  lerp(10000, 40000, easeInOut(phaseMix(cp, timings.heelRise, timings.toeOff)))

\* The state object animateWalk builds, with the bindings its callbacks close
\* over: `params` is the record of the render that created animateWalk (the
\* callbacks never see a later one), startParams its copy.  lastNow and
\* restoreNow are the last timestamps delivered, from startTime and from
\* restoreStart.  lockAcquiredAt, lockedByKnee and prevLiveKnee are history:
\* the time of the frame that took the lock, whether the knee heuristic took
\* it, and the live record's knee angle at the previous frame.
NewWalkState(p) ==
  [ params |-> p,
    startParams |-> p,
    isFootLocked |-> FALSE,
    contactAnkle |-> p.ankleAngle,
    contactArch |-> p.archHeight,
    prevKnee |-> p.kneeAngle,
    kneeStraightThreshold |-> p.kneeAngle + 4000,
    lastNow |-> 0,
    restoreNow |-> 0,
    lockAcquiredAt |-> -1,
    lockedByKnee |-> FALSE,
    prevLiveKnee |-> p.kneeAngle ]


----------------------------------------------------------------------------
(* animateWalk.frame: one callback of the main loop.                       *)

\* currentKnee = params.kneeAngle.  `params` is the binding animateWalk closed
\* over, not the live record the frame is about to update.
CurrentKneeLive(st, live) == live.kneeAngle
CurrentKnee(st, live) == st.params.kneeAngle

\* kneeVel = (currentKnee - prevKnee) / (1 / 60), in thousandths of deg/s.
kneeVel(st, currentKnee) == (currentKnee - st.prevKnee) * 60

\* if (nominalPhase === "foot-flat" && !state.isFootLocked) { lock }
LockOnFootFlatAnyPhase(st, cp, now) ==
  IF NominalPhase(cp) \in {"foot-flat", "heel-rise"} /\ ~st.isFootLocked
  THEN [st EXCEPT !.isFootLocked = TRUE,
                  !.contactAnkle = flatAngle(cp),
                  !.contactArch = Max(2000, st.startParams.archHeight - 1400),
                  !.lockAcquiredAt = now]
  ELSE st
LockOnFootFlat(st, cp, now) ==
  IF NominalPhase(cp) = "foot-flat" /\ ~st.isFootLocked
  THEN [st EXCEPT !.isFootLocked = TRUE,
                  !.contactAnkle = flatAngle(cp),
                  !.contactArch = Max(2000, st.startParams.archHeight - 1400),
                  !.lockAcquiredAt = now]
  ELSE st

\* if (kneeIsStraightening && kneeStraightAngleReached && !state.isFootLocked)
LockByKnee(st, cp, now, currentKnee, vel) ==
  IF vel < -20000 /\ currentKnee <= st.kneeStraightThreshold /\ ~st.isFootLocked
  THEN [st EXCEPT !.isFootLocked = TRUE,
                  !.contactAnkle = flatAngle(cp),
                  !.contactArch = Max(2000, st.startParams.archHeight - 1600),
                  !.lockAcquiredAt = now,
                  !.lockedByKnee = TRUE]
  ELSE st

\* if (nominalPhase === "toe-off" && state.isFootLocked) { release }
ReleaseOnToeOff(st, cp) ==
  IF NominalPhase(cp) = "toe-off" /\ st.isFootLocked
  THEN [st EXCEPT !.isFootLocked = FALSE]
  ELSE st

\* The lock logic of one frame, in the order of the code; prevKnee is
\* overwritten before the lock is decided.
LockLogic(st, live, cp, now) ==
  LET currentKnee == CurrentKnee(st, live)
      vel == kneeVel(st, currentKnee)
      s0 == [st EXCEPT !.prevKnee = currentKnee]
      s1 == LockOnFootFlat(s0, cp, now)
      s2 == LockByKnee(s1, cp, now, currentKnee, vel)
  IN  ReleaseOnToeOff(s2, cp)

\* desiredAnkle: the phase's guide angle, pulled to contactAnkle under lock.
desiredAnkle(st, cp) ==
  LET phase == NominalPhase(cp)
      guide == IF phase = "heel-strike" THEN heelStrikeAngle(st, cp)
               ELSE IF phase = "foot-flat" THEN flatAngle(cp)
               ELSE IF phase = "heel-rise" THEN heelRiseAngle(cp)
               ELSE IF phase = "toe-off" THEN toeOffAngle(cp)
               ELSE st.startParams.ankleAngle
  IN  IF st.isFootLocked
      THEN lerp(guide, st.contactAnkle, plantSnapStrength)
      ELSE guide

desiredArch(st, cp) ==
  LET start == st.startParams.archHeight
  IN  IF st.isFootLocked
      THEN lerp(start, st.contactArch, plantSnapStrength)
      ELSE IF NominalPhase(cp) = "foot-flat"
      THEN lerp(start, Max(2000, start - 1400),
                easeInOut(phaseMix(cp, timings.heelStrike, timings.footFlat)))
      ELSE start

\* kneeOsc = max(0, sin((cycleProgress - 0.12) * PI)); 0.12 of a cycle is
\* 144 ms, and SinPi counts in units of pi / 1200.
desiredKnee(st, cp) ==
  lerp(st.startParams.kneeAngle, 70000, clamp(Max(0, SinPi(cp - 144)), 0, Milli))
\* sin(cycleProgress * 2 * PI + PI / 2) * stepYaw, stepYaw = 12
desiredStep(cp) == SinPi(2 * cp + 600) * 12
\* max(0, sin((cycleProgress - 0.25) * PI)) * 8
desiredVertical(cp) == Max(0, SinPi(cp - 300)) * 8

\* The value each animated field is blended toward, as handed to lerp.
Targets(st, cp) ==
  [ ankleAngle |-> clamp(desiredAnkle(st, cp), -90000, 60000),
    archHeight |-> clamp(desiredArch(st, cp), 2000, 8000),
    kneeAngle |-> clamp(desiredKnee(st, cp), 0, 90000),
    stepAngle |-> clamp(desiredStep(cp), -35000, 35000),
    verticalShift |-> desiredVertical(cp),
    hipAngle |-> st.startParams.hipAngle ]

\* The blend factor of each animated field: tSmooth, tSmooth * 1.1 for the
\* arch, tSmooth * 0.6 for the hip.
SmoothFactorOver(f) ==
  IF f = "archHeight" THEN Mul(tSmooth, 11000)
  ELSE IF f = "hipAngle" THEN Mul(tSmooth, 600)
  ELSE tSmooth
SmoothFactor(f) ==
  IF f = "archHeight" THEN Mul(tSmooth, 1100)
  ELSE IF f = "hipAngle" THEN Mul(tSmooth, 600)
  ELSE tSmooth

\* setParams((prev) => ({ ...prev, <animated fields lerped to the targets> }))
SmoothParams(prev, target) ==
  [ f \in DOMAIN prev |->
      IF f \in AnimatedFields
      THEN lerp(prev[f], target[f], SmoothFactor(f))
      ELSE prev[f] ]

\* Whether the main loop goes on after a frame at `now`.
MainLoopContinues(now) == now < cycleDuration * totalCycles

\* frame(now): the closure state after the frame, the targets and the record
\* it stores.  `now` is now - state.startTime, `live` the record setParams
\* hands to its updater.
frame(st, live, now) ==
  LET cp == cycleProgress(now)
      after == [LockLogic(st, live, cp, now) EXCEPT
                  !.lastNow = now, !.prevLiveKnee = live.kneeAngle]
      target == Targets(after, cp)
  IN  [ st |-> after, target |-> target, out |-> SmoothParams(live, target) ]

----------------------------------------------------------------------------
(* animateWalk.restoreLoop: one callback of the easing back to the start.  *)

RestoreDone(e) == e >= restoreDur

\* setParams((prev) => ({ ...prev, <animated fields lerped to startParams> }))
RestoreBlend(st, live, e) ==
  LET eased == easeInOut(clamp(Round(e * Milli, restoreDur), 0, Milli))
  IN  [ f \in DOMAIN live |->
          IF f \in AnimatedFields
          THEN lerp(live[f], st.startParams[f], eased)
          ELSE live[f] ]

\* setParams((prev) => ({ ...prev, ...startParams })): the exact reset.
ExactResetAnimatedOnly(st, live) ==
  [ f \in DOMAIN live |->
      IF f \in AnimatedFields THEN st.startParams[f] ELSE live[f] ]
ExactReset(st, live) ==
  [ f \in DOMAIN live |->
      IF f \in DOMAIN st.startParams THEN st.startParams[f] ELSE live[f] ]

restoreLoop(st, live, e) ==
  LET blended == RestoreBlend(st, live, e)
  IN  [ st |-> [st EXCEPT !.restoreNow = e],
        out |-> IF RestoreDone(e) THEN ExactReset(st, blended) ELSE blended ]


----------------------------------------------------------------------------
(* useStoredParams: the in-memory copy (storedRef) and local storage.      *)

STORAGE_KEY == "pierna:params"
GLTF_KEY == "pierna:gltf"

\* The fields of a parameter record in the order JSON.stringify writes them:
\* the order of defaultParams, which every spread of the page preserves.
KeyOrder ==
  << "footLength", "archHeight", "heelRadius", "toeCount", "tibiaLength",
     "femurLength", "legThickness", "kneeAngle", "ankleAngle", "hipAngle",
     "footRotation", "stepAngle", "verticalShift", "springStiffness",
     "dampingFactor" >>

\* A local-storage entry: none, or a text.  A text is the JSON of a record
\* (its key/value pairs in order), the JSON null, or text JSON.parse rejects.
NoItem == [ kind |-> "absent" ]
NullText == [ kind |-> "null" ]
BrokenText == [ kind |-> "broken" ]
UrlText(url) == [ kind |-> "url", url |-> url ]

\* JSON.stringify(record)
StringifyWithoutLast(p) ==
  [ kind |-> "json",
    pairs |-> [ i \in 1..(Len(KeyOrder) - 1) |-> << KeyOrder[i], p[KeyOrder[i]] >> ] ]
Stringify(p) ==
  [ kind |-> "json",
    pairs |-> [ i \in 1..Len(KeyOrder) |-> << KeyOrder[i], p[KeyOrder[i]] >> ] ]

\* JSON.parse(text) of a record's text: the object of its pairs.
Parse(text) ==
  [ k \in { text.pairs[i][1] : i \in 1..Len(text.pairs) } |->
      LET i == CHOOSE j \in 1..Len(text.pairs) : text.pairs[j][1] = k
      IN  text.pairs[i][2] ]

\* storedRef before the first render, and the undefined gltfUrl.
NoStored == [ none |-> TRUE ]
NoUrl == ""

\* The first render of useStoredParams: storedRef.current is filled from
\* local storage; an absent or null entry gives the defaults, and so does a
\* text that JSON.parse rejects (the catch branch, which drops gltfUrl too).
LoadStored(storage, defaults) ==
  LET raw == storage[STORAGE_KEY]
      rawGltf == storage[GLTF_KEY]
  IN  IF raw.kind = "broken" THEN [ params |-> defaults, gltfUrl |-> NoUrl ]
      ELSE [ params |-> IF raw.kind = "json" THEN Parse(raw) ELSE defaults,
             gltfUrl |-> IF rawGltf.kind = "url" THEN rawGltf.url ELSE NoUrl ]

\* save(next): nothing when the JSON texts are equal; otherwise the
\* in-memory record is replaced and then the entry is written.  `accepted`
\* is whether localStorage.setItem returns (TRUE) or throws (FALSE); the
\* catch block only logs.  The result is the new storedRef, the new storage
\* and whether setItem was called.
saveMemoryOnly(ref, storage, next, accepted) ==
  IF Stringify(ref.params) = Stringify(next)
  THEN [ ref |-> ref, storage |-> storage, called |-> FALSE ]
  ELSE [ ref |-> [ ref EXCEPT !.params = next ], storage |-> storage,
         called |-> FALSE ]
saveAlways(ref, storage, next, accepted) ==
  [ ref |-> [ ref EXCEPT !.params = next ],
    storage |-> IF accepted
                THEN [ storage EXCEPT ![STORAGE_KEY] = Stringify(next) ]
                ELSE storage,
    called |-> TRUE ]
save(ref, storage, next, accepted) ==
  IF Stringify(ref.params) = Stringify(next)
  THEN [ ref |-> ref, storage |-> storage, called |-> FALSE ]
  ELSE [ ref |-> [ ref EXCEPT !.params = next ],
         storage |-> IF accepted
                     THEN [ storage EXCEPT ![STORAGE_KEY] = Stringify(next) ]
                     ELSE storage,
         called |-> TRUE ]

\* saveGltf(url)
saveGltf(ref, storage, url, accepted) ==
  IF ref.gltfUrl = url
  THEN [ ref |-> ref, storage |-> storage, called |-> FALSE ]
  ELSE [ ref |-> [ ref EXCEPT !.gltfUrl = url ],
         storage |-> IF accepted
                     THEN [ storage EXCEPT ![GLTF_KEY] = UrlText(url) ]
                     ELSE storage,
         called |-> TRUE ]

\* Whether setItem returns: it throws in a browser whose storage is full.
Outcomes == { ~storageFull }

NoSave == [ fn |-> "none" ]

\* A call of save or saveGltf acts on the hook and on storage: `r` is what
\* the call returns in the model, `key` the entry it writes.
Stores(fn, key, r, accepted) ==
  /\ storedRef' = r.ref
  /\ localStorage' = r.storage
  /\ UNCHANGED storageFull
  /\ refusedKeys' = IF ~r.called THEN refusedKeys
                    ELSE IF accepted THEN refusedKeys \ {key}
                    ELSE refusedKeys \cup {key}
  /\ lastSave' = [ fn |-> fn, called |-> r.called, accepted |-> accepted ]

\* The page's first effect, which runs after every render that changed
\* `params`: stored.save(params).
SaveEffect ==
  /\ \E accepted \in Outcomes :
       Stores("save", STORAGE_KEY,
              save(storedRef, localStorage, params', accepted), accepted)
  /\ UNCHANGED gltfUrl

\* The page's second effect, after a render that changed gltfUrl:
\* if (gltfUrl) stored.saveGltf(gltfUrl).
SaveGltfEffect ==
  IF gltfUrl' = ""
  THEN UNCHANGED << storedRef, localStorage, storageFull, lastSave, refusedKeys >>
  ELSE \E accepted \in Outcomes :
         Stores("saveGltf", GLTF_KEY,
                saveGltf(storedRef, localStorage, gltfUrl', accepted), accepted)

\* The page mounts: the hook's first render loads storedRef, and the effects
\* of the first render run with params = defaultParams and gltfUrl = "".
MountEffects ==
  /\ gltfUrl' = ""
  /\ \E accepted \in Outcomes :
       Stores("save", STORAGE_KEY,
              save(LoadStored(localStorage, defaultParams), localStorage,
                   defaultParams, accepted),
              accepted)

\* Local storage of a browser that never held the page's entries, and the
\* hook after the page has mounted on it: the defaults loaded, and a first
\* save that found nothing to write.
EmptyStorage == [ k \in { STORAGE_KEY, GLTF_KEY } |-> NoItem ]
StoreInit ==
  /\ localStorage = EmptyStorage
  /\ storedRef = LoadStored(EmptyStorage, defaultParams)
  /\ gltfUrl = ""
  /\ storageFull = FALSE
  /\ lastSave = NoSave
  /\ refusedKeys = {}

----------------------------------------------------------------------------
(* The page: state after mount, and its handlers.                          *)

NoFrame == [ fn |-> "none" ]
NoPose == [ none |-> TRUE ]
NoProbe == [ now |-> -1 ]
NoJson == [ kind |-> "none" ]
NoFile == [ name |-> << >>, kind |-> "none", bytes |-> << >>, json |-> NoJson ]
NoValidation == [ none |-> TRUE ]
NoAnalysis == [ none |-> TRUE ]

\* GLTFFileManager after mount: nothing uploaded, no analysis.
ManagerInit ==
  /\ files = << >>
  /\ analysis = NoAnalysis
  /\ analyzing = {}
  /\ mainDoc = NoFile
  /\ batches = 0

\* The page's error escalation after mount.
ErrInit ==
  /\ hasError = FALSE
  /\ errorCountRef = 0

\* CanvasScene at its first render, before its mount effect has run.
SceneInit ==
  /\ modelStatus = "loading"
  /\ probing = 0
  /\ probes = << >>
  /\ modelLoad = "none"

\* new WalkingAnimator(onUpdate): not playing, startTime 0, no frame
\* requested; onUpdate never called.
NewAnimator ==
  [ isPlaying |-> FALSE, startTime |-> 0, animationId |-> 0, pending |-> {},
    updates |-> 0, elapsed |-> 0, now |-> 1000, steps |-> 0, last |-> "new" ]

\* useGLTFManager after mount.
NoLoad == [ file |-> NoFile, n |-> 0, done |-> 0, outcome |-> "none" ]
LoaderInit ==
  /\ modelUrl = ""
  /\ loading = FALSE
  /\ loads = {}
  /\ lastLoad = NoLoad
  /\ objectUrls = [ created |-> {}, revoked |-> {} ]

NoArg == [ fn |-> "none" ]
HookInit ==
  /\ animator = NewAnimator
  /\ LoaderInit
  /\ lastArg = NoArg

\* No onUpdate call yet.
NoCyclePose == [ elapsed |-> -1, pose |-> [ footRotation |-> 0 ] ]

\* GLTFModel after a first render with an empty url: the effect has returned
\* at once.
NoModel == [ url |-> "", n |-> 0, gltf |-> 0, bones |-> 0, loading |-> TRUE,
             inflight |-> {}, last |-> 0 ]

\* DataModal before it has rendered.
NoModal == [ open |-> FALSE, rendered |-> FALSE ]
ExtraInit ==
  /\ walkPose = NoCyclePose
  /\ panelStatus = "loading"
  /\ gltfModel = NoModel
  /\ hookAnimating = FALSE
  /\ modal = NoModal

\* The components beside the page after mount.
AsideInit == ManagerInit /\ ErrInit /\ SceneInit /\ HookInit /\ ExtraInit

\* requestAnimationFrame: a handle no pending callback and no reference holds.
\* (The browser counts handles up for ever; only their distinctness from the
\* handles still held is observable, so the model reuses released ones.)
requestAnimationFrame(pending, held) ==
  CHOOSE i \in 1..(Cardinality(pending) + 2) :
    /\ i # held
    /\ \A c \in pending : c.id # i
    /\ \A j \in 1..(i - 1) : j = held \/ \E c \in pending : c.id = j

cancelAnimationFrame(pending, id) == { c \in pending : c.id # id }

\* The gaps the next frame may come after, and what a gap costs.
Gaps == {FrameGap} \cup (IF disturbances < MaxDisturbances THEN StallGaps ELSE {})
Cost(dt) == IF dt = FrameGap THEN 0 ELSE 1

WalkInit ==
  /\ params = defaultParams
  /\ isAnimating = FALSE
  /\ gltfError = FALSE
  /\ animFrameRef = NULL
  /\ rafPending = {}
  /\ lastFrame = NoFrame
  /\ poseAtCall = NoPose
  /\ lastEvent = "mount"
  /\ sinceReset = FALSE
  /\ disturbances = 0

\* handleParamChange(key, value)
HandleParamChange(key, value) ==
  /\ disturbances < MaxDisturbances
  /\ params[key] # value
  /\ params' = [params EXCEPT ![key] = value]
  /\ disturbances' = disturbances + 1
  /\ lastEvent' = "slider"
  /\ sinceReset' = FALSE
  /\ lastFrame' = NoFrame
  /\ UNCHANGED << isAnimating, gltfError, animFrameRef, rafPending, poseAtCall >>
  /\ SaveEffect
  /\ UNCHANGED << probeVars, gltfVars, asideVars >>

\* The pending callbacks and the reference after resetValues' cancellation.
ResetCancelNothing(pending, ref) == [ pending |-> pending, ref |-> ref ]
ResetCancel(pending, ref) ==
  IF ref # NULL
  THEN [ pending |-> cancelAnimationFrame(pending, ref), ref |-> NULL ]
  ELSE [ pending |-> pending, ref |-> ref ]

\* resetValues()
ResetValues ==
  LET c == ResetCancel(rafPending, animFrameRef)
  IN  /\ params' = defaultParams
      /\ isAnimating' = FALSE
      /\ gltfError' = FALSE
      /\ rafPending' = c.pending
      /\ animFrameRef' = c.ref
      /\ lastEvent' = IF \E cb \in rafPending : cb.fn = "restoreLoop"
                       THEN "reset in restore"
                       ELSE IF rafPending # {} THEN "reset in walk" ELSE "reset"
      /\ sinceReset' = TRUE
      /\ lastFrame' = NoFrame
      /\ poseAtCall' = NoPose
      /\ UNCHANGED disturbances
      /\ SaveEffect
      /\ UNCHANGED << probeVars, gltfVars, asideVars >>

\* animateWalk(), up to the launch of the loop
AnimateWalk ==
  /\ ~isAnimating
  /\ LET pending == IF animFrameRef # NULL
                    THEN cancelAnimationFrame(rafPending, animFrameRef)
                    ELSE rafPending
         id == requestAnimationFrame(pending, animFrameRef)
     IN  /\ rafPending' =
               pending \cup {[ id |-> id, fn |-> "frame", st |-> NewWalkState(params) ]}
         /\ animFrameRef' = id
  /\ isAnimating' = TRUE
  /\ poseAtCall' = params
  /\ lastEvent' = "animate"
  /\ sinceReset' = FALSE
  /\ lastFrame' = NoFrame
  /\ UNCHANGED << params, gltfError, disturbances >>
  /\ UNCHANGED << probeVars, gltfVars, asideVars, storeVars >>

\* The browser runs the pending main-loop callback c, dt ms after the last
\* timestamp of its loop.
Frame(c, dt) ==
  /\ c \in rafPending
  /\ c.fn = "frame"
  /\ LET now == c.st.lastNow + dt
         r == frame(c.st, params, now)
         rest == rafPending \ {c}
         id == requestAnimationFrame(rest, animFrameRef)
         next == IF MainLoopContinues(now) THEN "frame" ELSE "restoreLoop"
     IN  /\ params' = r.out
         /\ rafPending' = rest \cup {[ id |-> id, fn |-> next, st |-> r.st ]}
         /\ animFrameRef' = id
         /\ lastFrame' = [ fn |-> "frame", now |-> now, prev |-> params,
                           before |-> c.st, after |-> r.st,
                           target |-> r.target, out |-> r.out ]
  /\ disturbances' = disturbances + Cost(dt)
  /\ lastEvent' = "frame"
  /\ UNCHANGED << isAnimating, gltfError, poseAtCall, sinceReset >>
  /\ SaveEffect
  /\ UNCHANGED << probeVars, gltfVars, asideVars >>

\* What the last restoreLoop callback leaves in isAnimating.
FinishKeepsAnimating(was) == was
FinishAnimating(was) == FALSE

\* The browser runs the pending restoreLoop callback c, dt ms after the last
\* timestamp of its loop (restoreStart for the first one).
Restore(c, dt) ==
  /\ c \in rafPending
  /\ c.fn = "restoreLoop"
  /\ LET e == c.st.restoreNow + dt
         r == restoreLoop(c.st, params, e)
         rest == rafPending \ {c}
         id == requestAnimationFrame(rest, animFrameRef)
     IN  /\ params' = r.out
         /\ lastFrame' = [ fn |-> "restoreLoop", now |-> e, prev |-> params,
                           before |-> c.st, after |-> r.st, out |-> r.out ]
         /\ IF RestoreDone(e)
            THEN /\ rafPending' = rest
                 /\ animFrameRef' = NULL
                 /\ isAnimating' = FinishAnimating(isAnimating)
                 /\ lastEvent' = "finished"
            ELSE /\ rafPending' = rest \cup {[ id |-> id, fn |-> "restoreLoop", st |-> r.st ]}
                 /\ animFrameRef' = id
                 /\ isAnimating' = isAnimating
                 /\ lastEvent' = "restore"
  /\ disturbances' = disturbances + Cost(dt)
  /\ UNCHANGED << gltfError, poseAtCall, sinceReset >>
  /\ SaveEffect
  /\ UNCHANGED << probeVars, gltfVars, asideVars >>

Next ==
  \/ \E e \in SliderEdits : HandleParamChange(e[1], e[2])
  \/ ResetValues
  \/ AnimateWalk
  \/ \E c \in rafPending, dt \in Gaps : Frame(c, dt)
  \/ \E c \in rafPending, dt \in Gaps : Restore(c, dt)

Init ==
  /\ WalkInit
  /\ probe = NoProbe
  /\ file = NoFile
  /\ validation = NoValidation
  /\ AsideInit
  /\ StoreInit

Spec == Init /\ [][Next]_vars

\* A pending callback is delivered: the browser runs requestAnimationFrame
\* callbacks at the next display refresh.
Deliver ==
  \E c \in rafPending, dt \in Gaps : Frame(c, dt) \/ Restore(c, dt)

\* Deliver is enabled exactly when a callback is pending.
DeliverEnabledWhenPending == (ENABLED <<Deliver>>_vars) = (rafPending # {})

\* Animation frames keep being delivered: weak fairness of Deliver, that is
\* WF_vars(Deliver), written out with ENABLED <<Deliver>>_vars replaced by
\* its equal rafPending # {} (DeliverEnabledWhenPending).  Nothing is assumed
\* of the user: no click and no slider edit ever has to happen.
FairSpec ==
  Spec /\ ([]<>(rafPending = {}) \/ []<><<Deliver>>_vars)

----------------------------------------------------------------------------
(* The phase thresholds on a fine clock: timestamps a few ms apart over the *)
(* two cycles of an animation, each mapped to its nominal phase as frame    *)
(* does.                                                                    *)

PhaseIndex(ph) ==
  CASE ph = "heel-strike" -> 1
    [] ph = "foot-flat" -> 2
    [] ph = "heel-rise" -> 3
    [] ph = "toe-off" -> 4
    [] ph = "swing" -> 5

ProbeAt(now) == [ now |-> now, phase |-> NominalPhase(cycleProgress(now)) ]

PhaseInit ==
  /\ WalkInit
  /\ \E now \in 0..MaxProbeGap : probe = ProbeAt(now)
  /\ file = NoFile
  /\ validation = NoValidation
  /\ AsideInit
  /\ StoreInit

\* The next timestamp, dt ms later.
PhaseTick(dt) ==
  /\ probe.now + dt < cycleDuration * totalCycles
  /\ probe' = ProbeAt(probe.now + dt)
  /\ UNCHANGED << walkVars, gltfVars, asideVars, storeVars >>

PhaseNext == \E dt \in 1..MaxProbeGap : PhaseTick(dt)

SpecPhase == PhaseInit /\ [][PhaseNext]_vars

----------------------------------------------------------------------------
(* Claims about the walk animation.                                        *)

\* The nominal phase of the last main-loop frame.
LastPhase == NominalPhase(cycleProgress(lastFrame.now))
LastWasFrame == lastFrame.fn = "frame"
Idle == ~isAnimating /\ animFrameRef = NULL /\ rafPending = {}

\* C2: a walk animation terminates.  The main loop hands over to the restore
\* loop at the first frame 2 * 1200 ms or more after the start, the restore
\* loop ends at its first callback 450 ms or more after its start, and with
\* frames being delivered every animation reaches isAnimating = FALSE with no
\* callback scheduled.
C2_Timing ==
  /\ \A c \in rafPending :
       /\ c.fn = "frame" => c.st.lastNow < 2400
       /\ c.fn = "restoreLoop" => c.st.lastNow >= 2400 /\ c.st.restoreNow < 450
  /\ lastEvent = "finished" =>
       /\ lastFrame.fn = "restoreLoop"
       /\ lastFrame.now >= 450
       /\ lastFrame.before.lastNow >= 2400
C2_WalkTerminates == [](C2_Timing) /\ (isAnimating ~> Idle)
C2_Witness == lastEvent = "finished" /\ Idle /\ disturbances = 0

\* C3: when a walk animation finishes on its own, every field of the record
\* has the value it had when animateWalk was called, slider edits made during
\* the animation included.
C3_RestoresStartPose == lastEvent = "finished" => params = poseAtCall
C3_Witness ==
  /\ lastEvent = "finished"
  /\ lastFrame.prev.footLength # poseAtCall.footLength
  /\ params = poseAtCall

\* C4: from resetValues until the next user action the record is
\* defaultParams, isAnimating is FALSE, and no callback is pending (so none
\* runs and none changes the record), wherever in the animation it came.
C4_ResetIsImmediate ==
  sinceReset => params = defaultParams /\ Idle
C4_Witness == sinceReset /\ lastEvent = "reset in restore" /\ Idle

\* C5: after a foot-flat frame the foot is locked, with contactAnkle the
\* foot-flat angle of the frame that took the lock; after a toe-off frame it
\* is unlocked; a heel-rise frame leaves the lock as it was.
C5_LockFollowsPhases ==
  LastWasFrame =>
    LET a == lastFrame.after
        b == lastFrame.before
    IN  /\ LastPhase = "foot-flat" => a.isFootLocked
        /\ a.isFootLocked =>
             /\ a.lockAcquiredAt >= 0
             /\ a.contactAnkle = flatAngle(cycleProgress(a.lockAcquiredAt))
        /\ LastPhase = "toe-off" => ~a.isFootLocked
        /\ LastPhase = "heel-rise" =>
             /\ a.isFootLocked = b.isFootLocked
             /\ a.contactAnkle = b.contactAnkle
             /\ a.contactArch = b.contactArch
C5_Witness ==
  /\ LastWasFrame
  /\ LastPhase = "foot-flat"
  /\ lastFrame.before.isFootLocked
  /\ lastFrame.after.contactAnkle # flatAngle(cycleProgress(lastFrame.now))

\* C6: the knee-velocity heuristic takes the lock: a frame that finds the foot
\* unlocked after the phase rule, with the record's knee angle more than
\* 20 deg/s below what it was at the previous frame and at most the starting
\* knee angle + 4, sets the lock.
C6_KneeStraightens ==
  /\ LastWasFrame
  /\ ~lastFrame.before.isFootLocked
  /\ LastPhase # "foot-flat"
  /\ (lastFrame.prev.kneeAngle - lastFrame.before.prevLiveKnee) * 60 < -20000
  /\ lastFrame.prev.kneeAngle <= lastFrame.before.kneeStraightThreshold
C6_KneeHeuristicLocks ==
  C6_KneeStraightens => lastFrame.after.lockAcquiredAt = lastFrame.now
\* What the code does instead: the frame reads the knee angle of the record
\* animateWalk closed over, so the velocity it computes is 0 in every frame
\* and the heuristic never takes the lock.
C6_KneeVelocityIsZero ==
  /\ \A c \in rafPending :
       /\ c.st.prevKnee = c.st.params.kneeAngle
       /\ ~c.st.lockedByKnee
  /\ LastWasFrame =>
       kneeVel(lastFrame.before, CurrentKnee(lastFrame.before, lastFrame.prev)) = 0

\* C7 as claimed: the record a frame stores is the one a frame at the same
\* elapsed time, on the same previous record and starting pose, stores in a
\* run that delivered no frame before it.
FirstFrameOf(start, prev, now) == frame(NewWalkState(start), prev, now).out
C7_FunctionOfTimeAndRecord ==
  LastWasFrame =>
    lastFrame.out =
      FirstFrameOf(lastFrame.before.startParams, lastFrame.prev, lastFrame.now)
\* C7 as amended: the record a frame stores is a function of the elapsed
\* time, the previous record, the starting pose and the foot-lock state the
\* frame finds (isFootLocked, contactAnkle, contactArch); nothing else the
\* earlier frames left behind changes it.
C7_FunctionOfTimeRecordAndLock ==
  LastWasFrame =>
    LET b == lastFrame.before
        fresh == [NewWalkState(b.startParams) EXCEPT
                    !.isFootLocked = b.isFootLocked,
                    !.contactAnkle = b.contactAnkle,
                    !.contactArch = b.contactArch]
    IN  lastFrame.out = frame(fresh, lastFrame.prev, lastFrame.now).out
C7_Witness ==
  /\ LastWasFrame
  /\ lastFrame.before.isFootLocked
  /\ LastPhase = "heel-rise"
  /\ lastFrame.out #
       FirstFrameOf(lastFrame.before.startParams, lastFrame.prev, lastFrame.now)

\* C8: a main-loop frame sets each animated field to prev + k * (target -
\* prev) with a fixed k strictly between 0 and 1, so the new value lies
\* between the previous value and the target and never passes it; the targets
\* of ankle, arch, knee and step are inside their clamp ranges.
C8_NoOvershoot ==
  LastWasFrame =>
    /\ \A f \in AnimatedFields :
         LET k == SmoothFactor(f)
             a == lastFrame.prev[f]
             b == lastFrame.target[f]
             o == lastFrame.out[f]
         IN  /\ 0 < k /\ k < Milli
             /\ o = a + Round((b - a) * k, Milli)
             /\ Min(a, b) <= o /\ o <= Max(a, b)
    /\ lastFrame.target.ankleAngle \in -90000..60000
    /\ lastFrame.target.archHeight \in 2000..8000
    /\ lastFrame.target.kneeAngle \in 0..90000
    /\ lastFrame.target.stepAngle \in -35000..35000
    /\ \A f \in DOMAIN params \ AnimatedFields : lastFrame.out[f] = lastFrame.prev[f]
C8_Witness ==
  /\ LastWasFrame
  /\ \A f \in AnimatedFields \ {"hipAngle"} :
       \/ lastFrame.prev[f] < lastFrame.out[f] /\ lastFrame.out[f] < lastFrame.target[f]
       \/ lastFrame.prev[f] > lastFrame.out[f] /\ lastFrame.out[f] > lastFrame.target[f]


----------------------------------------------------------------------------
(* Claim about the phase thresholds.                                       *)

\* C1: with p = ms / 1200 the progress within the cycle, the nominal phase is
\* heel-strike if p <= 0.18, foot-flat if 0.18 < p <= 0.55, heel-rise if
\* 0.55 < p <= 0.78, toe-off if 0.78 < p <= 0.95 and swing otherwise; p = 0.2
\* is foot-flat; and from one timestamp to a later one of the same cycle the
\* phase never goes back.
C1_Table ==
  LET ms == probe.now % 1200
      expected == IF 100 * ms <= 18 * 1200 THEN "heel-strike"
                  ELSE IF 100 * ms <= 55 * 1200 THEN "foot-flat"
                  ELSE IF 100 * ms <= 78 * 1200 THEN "heel-rise"
                  ELSE IF 100 * ms <= 95 * 1200 THEN "toe-off"
                  ELSE "swing"
  IN  /\ probe.phase = expected
      /\ 10 * ms = 2 * 1200 => probe.phase = "foot-flat"
C1_Order ==
  probe'.now \div 1200 = probe.now \div 1200 =>
    PhaseIndex(probe'.phase) >= PhaseIndex(probe.phase)
C1_PhaseByThresholds == [](C1_Table) /\ [][C1_Order]_vars
C1_Witness == probe.now = 1200 + 240 /\ probe.phase = "foot-flat"


----------------------------------------------------------------------------
(* gltf-utils: analyzeGLTFFile.  Strings whose characters matter (file      *)
(* names, URIs) are sequences of one-character strings.                    *)

Lower(c) ==
  CASE c = "A" -> "a" [] c = "B" -> "b" [] c = "G" -> "g" [] c = "L" -> "l"
    [] OTHER -> c
toLowerCase(s) == [ i \in 1..Len(s) |-> Lower(s[i]) ]
startsWith(s, prefix) ==
  /\ Len(prefix) <= Len(s)
  /\ SubSeq(s, 1, Len(prefix)) = prefix
endsWith(s, suffix) ==
  /\ Len(suffix) <= Len(s)
  /\ SubSeq(s, Len(s) - Len(suffix) + 1, Len(s)) = suffix

\* uri.split('/').pop(): what follows the last "/", the whole string if none.
LastSegment(s) ==
  LET slashes == { i \in 1..Len(s) : s[i] = "/" }
  IN  IF slashes = {} THEN s
      ELSE SubSeq(s, (CHOOSE i \in slashes : \A j \in slashes : j <= i) + 1, Len(s))

\* uri.split('/').pop() || uri: an empty last segment falls back to the uri.
fileNameOfSegmentOnly(uri) == LastSegment(uri)
fileNameOf(uri) == IF LastSegment(uri) = << >> THEN uri ELSE LastSegment(uri)

DataPrefix == << "d", "a", "t", "a", ":" >>
GlbSuffix == << ".", "g", "l", "b" >>

\* 0x46546C67, "glTF" read as a little-endian 32-bit number.
GLB_MAGIC == 1179937895

\* view.getUint32(offset, true); it throws a RangeError unless InRange.
InRange(bytes, offset) == offset + 4 <= Len(bytes)
getUint32BigEndian(bytes, offset) ==
  bytes[offset + 4] + 256 * bytes[offset + 3] + 65536 * bytes[offset + 2]
    + 16777216 * bytes[offset + 1]
getUint32(bytes, offset) ==
  bytes[offset + 1] + 256 * bytes[offset + 2] + 65536 * bytes[offset + 3]
    + 16777216 * bytes[offset + 4]

getDefaultMetadata ==
  [ version |-> "unknown", meshCount |-> 0, materialCount |-> 0,
    textureCount |-> 0, animationCount |-> 0 ]

\* The bytes file.arrayBuffer() yields.  A text file's bytes are those of its
\* text: the model keeps their first characters, "null" or an opening brace.
arrayBuffer(f) ==
  IF f.kind = "binary" THEN f.bytes
  ELSE IF f.json.kind = "null" THEN << 110, 117, 108, 108 >>
  ELSE << 123, 34, 97, 115, 115, 101, 116, 34, 58, 123 >>

\* analyzeGLB(file)
analyzeGLB(f) ==
  LET bytes == arrayBuffer(f)
      invalid(msg) ==
        [ isValid |-> FALSE, isGLB |-> TRUE, hasEmbeddedTextures |-> FALSE,
          externalFiles |-> << >>, errors |-> << msg >>, warnings |-> << >>,
          metadata |-> getDefaultMetadata ]
  IN  IF f.kind = "unreadable" \/ ~InRange(bytes, 0)
      THEN invalid("Error al leer GLB")
      ELSE IF getUint32(bytes, 0) # GLB_MAGIC
      THEN invalid("Archivo GLB invalido: magic number incorrecto")
      ELSE IF ~InRange(bytes, 4)
      THEN invalid("Error al leer GLB")
      ELSE [ isValid |-> TRUE, isGLB |-> TRUE, hasEmbeddedTextures |-> TRUE,
             externalFiles |-> << >>, errors |-> << >>, warnings |-> << >>,
             metadata |-> [ getDefaultMetadata EXCEPT
                              !.version = ToString(getUint32(bytes, 4)) ] ]

\* A uri that passes `if (x.uri)`: a non-empty string, or a non-string value
\* (the model's "number").
Truthy(uri) == uri.kind = "number" \/ (uri.kind = "string" /\ uri.s # << >>)

\* What makes the body of analyzeGLTFJSON throw: an unreadable file, text
\* that is not JSON, a parsed value of null, a buffers or images field that is
\* not an array, a uri that has no startsWith.
JsonThrows(f) ==
  \/ f.kind # "text"
  \/ f.json.kind # "object"
  \/ f.json.buffers.kind = "other"
  \/ f.json.images.kind = "other"
  \/ \E i \in 1..Len(f.json.buffers.items) : f.json.buffers.items[i].uri.kind = "number"
  \/ \E i \in 1..Len(f.json.images.items) : f.json.images.items[i].uri.kind = "number"

\* Whether an entry is pushed to externalFiles.
IsExternalAnyUri(e) == Truthy(e.uri)
IsExternal(e) == Truthy(e.uri) /\ ~startsWith(e.uri.s, DataPrefix)

\* The externalFiles pushed for the entries of one array, in order.
RECURSIVE ExternalsOf(_, _)
ExternalsOf(items, type) ==
  IF items = << >> THEN << >>
  ELSE LET e == Head(items)
           rest == ExternalsOf(Tail(items), type)
       IN  IF IsExternal(e)
           THEN << [ type |-> type, uri |-> e.uri.s,
                     fileName |-> fileNameOf(e.uri.s), found |-> FALSE ] >> \o rest
           ELSE rest

\* The warnings pushed for the entries of one array (index from 0).
BufferWarnings(items) ==
  SelectSeq([ i \in 1..Len(items) |->
                [ msg |-> "Buffer no tiene URI", index |-> i - 1,
                  warn |-> ~Truthy(items[i].uri) ] ],
            LAMBDA w : w.warn)
ImageWarnings(items) ==
  SelectSeq([ i \in 1..Len(items) |->
                [ msg |-> "Imagen no tiene URI ni bufferView", index |-> i - 1,
                  warn |-> ~Truthy(items[i].uri) /\ ~items[i].bufferView ] ],
            LAMBDA w : w.warn)

\* hasEmbeddedTextures: externalFiles.length === 0
EmbeddedAlways(externalFiles) == TRUE
Embedded(externalFiles) == Len(externalFiles) = 0

\* (A JSON analysis whose failures reach the caller.)
analyzeGLTFJSONUncaught(f) == [ rejected |-> TRUE ]
\* analyzeGLTFJSON(file)
analyzeGLTFJSON(f) ==
  IF JsonThrows(f)
  THEN [ isValid |-> FALSE, isGLB |-> FALSE, hasEmbeddedTextures |-> FALSE,
         externalFiles |-> << >>, errors |-> << "Error al parsear JSON" >>,
         warnings |-> << >>, metadata |-> getDefaultMetadata ]
  ELSE LET gltf == f.json
           errors == IF gltf.asset.kind = "absent"
                     THEN << "Falta el campo \"asset\" requerido" >>
                     ELSE << >>
           externalFiles == ExternalsOf(gltf.buffers.items, "buffer")
                              \o ExternalsOf(gltf.images.items, "image")
       IN  [ isValid |-> Len(errors) = 0,
             isGLB |-> FALSE,
             hasEmbeddedTextures |-> Embedded(externalFiles),
             externalFiles |-> externalFiles,
             errors |-> errors,
             warnings |-> BufferWarnings(gltf.buffers.items)
                            \o ImageWarnings(gltf.images.items),
             metadata |-> [ getDefaultMetadata EXCEPT !.version = "2.0" ] ]

\* file.name.toLowerCase().endsWith('.glb')
IsGlbNameCaseSensitive(name) == endsWith(name, GlbSuffix)
IsGlbName(name) == endsWith(toLowerCase(name), GlbSuffix)

\* analyzeGLTFFile(file)
analyzeGLTFFile(f) ==
  IF IsGlbName(f.name) THEN analyzeGLB(f) ELSE analyzeGLTFJSON(f)


----------------------------------------------------------------------------
(* The files analyzeGLTFFile is given.  A File is a name and a content:    *)
(* binary (its bytes), text (what JSON.parse makes of it) or unreadable    *)
(* (arrayBuffer() and text() reject).                                      *)

GlbNames ==
  { << "a", ".", "g", "l", "b" >>, << "A", ".", "G", "L", "B" >>,
    << "m", ".", "G", "l", "b" >> }
OtherNames ==
  { << "a", ".", "g", "l", "t", "f" >>, << "g", "l", "b" >> }

\* Headers: every 4-byte word over the bytes of "glTF", followed by a
\* version 2 and zeros; a binary content is a prefix of one of them.
MagicBytes == {103, 108, 84, 70}
HeaderOf(word) ==
  [ i \in 1..(MaxBytes + 1) |->
      IF i <= 4 THEN word[i] ELSE IF i = 5 THEN 2 ELSE 0 ]
BinaryBytes ==
  { SubSeq(HeaderOf(word), 1, n) :
      word \in [1..4 -> MagicBytes], n \in 0..MaxBytes }

AbsentUri == [ kind |-> "absent", s |-> << >> ]
StringUri(s) == [ kind |-> "string", s |-> s ]
NumberUri == [ kind |-> "number", s |-> << >> ]

\* Entries of buffers[]: no uri, an inline data: uri, a plain file name, a
\* uri that ends in "/".
BufferEntries ==
  { [ uri |-> AbsentUri, bufferView |-> FALSE ],
    [ uri |-> StringUri(<< "d", "a", "t", "a", ":", "x" >>), bufferView |-> FALSE ],
    [ uri |-> StringUri(<< "a", ".", "b", "i", "n" >>), bufferView |-> FALSE ],
    [ uri |-> StringUri(<< "t", "/" >>), bufferView |-> FALSE ] }
\* Entries of images[]: a bufferView and no uri, an empty uri, an inline
\* data: uri, a uri with a directory, a uri that is not a string.
ImageEntries ==
  { [ uri |-> AbsentUri, bufferView |-> TRUE ],
    [ uri |-> StringUri(<< >>), bufferView |-> FALSE ],
    [ uri |-> StringUri(<< "d", "a", "t", "a", ":", "y" >>), bufferView |-> FALSE ],
    [ uri |-> StringUri(<< "t", "/", "a", ".", "p", "n", "g" >>), bufferView |-> FALSE ],
    [ uri |-> NumberUri, bufferView |-> FALSE ] }

SeqsUpTo(S, n) == UNION { [1..k -> S] : k \in 0..n }
ArraysOf(S) ==
  { [ kind |-> "absent", items |-> << >> ], [ kind |-> "other", items |-> << >> ] }
    \cup { [ kind |-> "array", items |-> a ] : a \in SeqsUpTo(S, MaxEntries) }

\* What JSON.parse yields: an object with optional asset, buffers and images,
\* or null; "SyntaxError" stands for text it rejects.
JsonValues ==
  { [ kind |-> "SyntaxError" ], [ kind |-> "null" ] }
    \cup { [ kind |-> "object", asset |-> [ kind |-> a ], buffers |-> b, images |-> i ] :
             a \in {"absent", "object"},
             b \in ArraysOf(BufferEntries),
             i \in ArraysOf(ImageEntries) }

BinaryFile(name, bytes) ==
  [ name |-> name, kind |-> "binary", bytes |-> bytes, json |-> [ kind |-> "SyntaxError" ] ]
TextFile(name, json) ==
  [ name |-> name, kind |-> "text", bytes |-> << >>, json |-> json ]
UnreadableFile(name) ==
  [ name |-> name, kind |-> "unreadable", bytes |-> << >>, json |-> NoJson ]

\* Binary and unreadable files under every name; text files under the names
\* that do not end in .glb, and two of them under the .glb names.
Files ==
  { BinaryFile(n, b) : n \in GlbNames \cup OtherNames, b \in BinaryBytes }
    \cup { UnreadableFile(n) : n \in GlbNames \cup OtherNames }
    \cup { TextFile(n, j) : n \in OtherNames, j \in JsonValues }
    \cup { TextFile(n, j) : n \in GlbNames,
                            j \in { v \in JsonValues : v.kind = "null" \/
                                      (v.kind = "object" /\ v.buffers.kind = "absent"
                                         /\ v.images.kind = "absent") } }

GltfInit ==
  /\ WalkInit
  /\ probe = NoProbe
  /\ file \in Files
  /\ validation = NoValidation
  /\ AsideInit
  /\ StoreInit

\* const result = await analyzeGLTFFile(file)
AnalyzeFile ==
  /\ validation = NoValidation
  /\ validation' = analyzeGLTFFile(file)
  /\ UNCHANGED << file, walkVars, probeVars, asideVars, storeVars >>

GltfNext == AnalyzeFile

SpecGltf == GltfInit /\ [][GltfNext]_vars


----------------------------------------------------------------------------
(* Claims about analyzeGLTFFile.                                           *)

Analyzed == validation # NoValidation

\* The file starts with the bytes 67 6C 54 46 ("glTF") and has 8 or more.
HasGlbHeader(f) ==
  /\ f.kind # "unreadable"
  /\ LET bytes == arrayBuffer(f)
     IN  /\ Len(bytes) >= 8
         /\ bytes[1] = 103 /\ bytes[2] = 108 /\ bytes[3] = 84 /\ bytes[4] = 70

\* C9: for a file whose name ends in .glb in any letter case, the result is
\* a validation (nothing is thrown) with isGLB = TRUE, and isValid = TRUE
\* exactly when the file has at least 8 bytes of which the first 4 are the
\* little-endian magic 0x46546C67; otherwise errors is not empty and
\* externalFiles is empty.
C9_GlbValidByMagic ==
  (Analyzed /\ endsWith(toLowerCase(file.name), GlbSuffix)) =>
    /\ DOMAIN validation =
         { "isValid", "isGLB", "hasEmbeddedTextures", "externalFiles", "errors",
           "warnings", "metadata" }
    /\ validation.isGLB
    /\ validation.isValid = HasGlbHeader(file)
    /\ ~validation.isValid =>
         /\ validation.errors # << >>
         /\ validation.externalFiles = << >>
C9_Witness ==
  /\ Analyzed
  /\ file.name = << "A", ".", "G", "L", "B" >>
  /\ file.bytes = << 103, 108, 84, 70, 2, 0 >>
  /\ ~validation.isValid
  /\ validation.isGLB

\* The claim's reading of the entries: those with a non-empty string uri that
\* does not start with "data:", in order.
ListedEntries(array) ==
  SelectSeq(array.items,
            LAMBDA e : /\ e.uri.kind = "string"
                       /\ e.uri.s # << >>
                       /\ ~(Len(e.uri.s) >= 5 /\ SubSeq(e.uri.s, 1, 5) = DataPrefix))
AfterLastSlash(s) ==
  LET cut == CHOOSE k \in 0..Len(s) :
               /\ k = 0 \/ s[k] = "/"
               /\ \A j \in (k + 1)..Len(s) : s[j] # "/"
  IN  [ i \in 1..(Len(s) - cut) |-> s[cut + i] ]
ListedAs(array, type, nameOf(_)) ==
  LET es == ListedEntries(array)
  IN  [ i \in 1..Len(es) |->
          [ type |-> type, uri |-> es[i].uri.s, fileName |-> nameOf(es[i].uri.s),
            found |-> FALSE ] ]
ParseableGltf ==
  /\ Analyzed
  /\ ~endsWith(toLowerCase(file.name), GlbSuffix)
  /\ file.kind = "text"
  /\ file.json.kind # "SyntaxError"
\* The analysis runs to its end: the text parses to an object whose buffers
\* and images are absent or arrays and whose uris are absent or strings.
WellTyped(json) ==
  /\ json.kind = "object"
  /\ json.buffers.kind # "other"
  /\ json.images.kind # "other"
  /\ \A i \in 1..Len(json.buffers.items) : json.buffers.items[i].uri.kind # "number"
  /\ \A i \in 1..Len(json.images.items) : json.images.items[i].uri.kind # "number"

C10_NameOrUri(s) == IF AfterLastSlash(s) = << >> THEN s ELSE AfterLastSlash(s)
----------------------------------------------------------------------------
(* GLTFFileManager: analyzeGLTF and handleFiles.                           *)

GltfSuffix == << ".", "g", "l", "t", "f" >>

\* await file.text() rejects for a file that cannot be read; the call is
\* outside analyzeGLTF's try block, so analyzeGLTF itself rejects.
Rejected == [ rejected |-> TRUE ]

\* file.size
SizeOf(f) == Len(arrayBuffer(f))

\* The uris analyzeGLTF pushes for the entries of one array, in order.
ManagerKeeps(e) == Truthy(e.uri) /\ ~startsWith(e.uri.s, DataPrefix)
RECURSIVE UrisOf(_)
UrisOf(items) ==
  IF items = << >> THEN << >>
  ELSE IF ManagerKeeps(Head(items))
  THEN << Head(items).uri.s >> \o UrisOf(Tail(items))
  ELSE UrisOf(Tail(items))

\* analyzeGLTF(file).  Inside the try block the same statements throw as in
\* analyzeGLTFJSON: JSON.parse on text that is not JSON, a field read on
\* null, forEach on a value that is not an array, startsWith on a uri that
\* is not a string.
analyzeGLTF(f) ==
  IF f.kind = "unreadable" THEN Rejected
  ELSE IF endsWith(f.name, GlbSuffix)
  THEN [ isValid |-> TRUE, isGLB |-> TRUE, hasEmbeddedTextures |-> TRUE,
         externalFiles |-> << >>, missingFiles |-> << >>, buffers |-> << >>,
         textures |-> << >>, estimatedSize |-> SizeOf(f) ]
  ELSE IF JsonThrows(f)
  THEN [ isValid |-> FALSE, isGLB |-> FALSE, hasEmbeddedTextures |-> FALSE,
         externalFiles |-> << >>, missingFiles |-> << >>, buffers |-> << >>,
         textures |-> << >>, estimatedSize |-> 0 ]
  ELSE LET buffers == UrisOf(f.json.buffers.items)
           textures == UrisOf(f.json.images.items)
       IN  [ isValid |-> TRUE, isGLB |-> FALSE,
             hasEmbeddedTextures |-> Len(buffers \o textures) = 0,
             externalFiles |-> buffers \o textures, missingFiles |-> << >>,
             buffers |-> buffers, textures |-> textures,
             estimatedSize |-> SizeOf(f) ]

\* file.name.endsWith('.gltf') || file.name.endsWith('.glb')
IsMainName(name) == endsWith(name, GltfSuffix) \/ endsWith(name, GlbSuffix)

\* mainGltfFile after the loop of handleFiles: the last file of the list with
\* a main name, NoFile if there is none.
MainOf(fileList) ==
  LET mains == { i \in 1..Len(fileList) : IsMainName(fileList[i].name) }
  IN  IF mains = {} THEN NoFile
      ELSE fileList[CHOOSE i \in mains : \A j \in mains : j <= i]

NamesOf(fileList) == [ i \in 1..Len(fileList) |-> fileList[i].name ]
Includes(names, name) == \E i \in 1..Len(names) : names[i] = name

\* result.externalFiles.filter(ext => !uploadedNames.includes(
\*   ext.split('/').pop() || ext))
Missing(externalFiles, uploadedNames) ==
  SelectSeq(externalFiles, LAMBDA ext : ~Includes(uploadedNames, fileNameOf(ext)))

\* The files a user uploads: a .gltf document that refers to a.bin and to
\* t/a.png, those two resources, and a .gltf document that cannot be read.
ManagerDoc ==
  TextFile(<< "m", ".", "g", "l", "t", "f" >>,
           [ kind |-> "object", asset |-> [ kind |-> "object" ],
             buffers |-> [ kind |-> "array", items |->
               << [ uri |-> StringUri(<< "a", ".", "b", "i", "n" >>),
                    bufferView |-> FALSE ] >> ],
             images |-> [ kind |-> "array", items |->
               << [ uri |-> StringUri(<< "t", "/", "a", ".", "p", "n", "g" >>),
                    bufferView |-> FALSE ] >> ] ])
ManagerFiles ==
  { ManagerDoc,
    BinaryFile(<< "a", ".", "b", "i", "n" >>, << >>),
    BinaryFile(<< "a", ".", "p", "n", "g" >>, << >>),
    UnreadableFile(<< "x", ".", "g", "l", "t", "f" >>) }

\* Upload batches in one session, and files in one batch.
MaxBatches == 2
MaxBatchLen == 2
FileLists == SeqsUpTo(ManagerFiles, MaxBatchLen) \ { << >> }

\* handleFiles(fileList) up to its await: the files are appended to the list
\* and, if the batch holds a main file, its analysis is started.
HandleFiles(fileList) ==
  /\ batches < MaxBatches
  /\ batches' = batches + 1
  /\ files' = files \o NamesOf(fileList)
  /\ analyzing' =
       IF MainOf(fileList) = NoFile THEN analyzing
       ELSE analyzing \cup { [ mainGltfFile |-> MainOf(fileList),
                               uploadedNames |-> NamesOf(fileList),
                               batch |-> batches' ] }
  /\ UNCHANGED << analysis, mainDoc >>
  /\ UNCHANGED notMgrVars

\* handleFiles after its await: analyzeGLTF has settled.  A rejection ends
\* the call without an analysis; a result is stored with the missing files
\* of the call's own batch.
AnalysisSettles(c) ==
  /\ c \in analyzing
  /\ analyzing' = analyzing \ {c}
  /\ LET result == analyzeGLTF(c.mainGltfFile)
     IN  IF result = Rejected
         THEN UNCHANGED << analysis, mainDoc >>
         ELSE /\ analysis' =
                   [ result EXCEPT !.missingFiles =
                       Missing(result.externalFiles, c.uploadedNames) ]
              /\ mainDoc' = c.mainGltfFile
  /\ UNCHANGED << files, batches >>
  /\ UNCHANGED notMgrVars

ManagerNext ==
  \/ \E fileList \in FileLists : HandleFiles(fileList)
  \/ \E c \in analyzing : AnalysisSettles(c)

SpecManager == Init /\ [][ManagerNext]_vars

\* C11: whenever no analysis is in flight, the missing files shown are
\* exactly the external references of the analysed main file whose file name
\* is not the name of any file uploaded so far, in this batch or an earlier
\* one.
C11_MissingAmongAllUploads ==
  (analyzing = {} /\ analysis # NoAnalysis) =>
    analysis.missingFiles =
      SelectSeq(analyzeGLTF(mainDoc).externalFiles,
                LAMBDA ext : ~Includes(files, fileNameOf(ext)))


----------------------------------------------------------------------------
(* The page's global error handler and the reload of the fallback.         *)

\* Window error events in one session.
MaxErrors == 4

\* if (errorCountRef.current > 2) setHasError(true)
EscalatesLate(count) == count > 3
Escalates(count) == count > 2

\* handleError(event): the listener the mount effect adds to window.
HandleError ==
  /\ errorCountRef < MaxErrors
  /\ errorCountRef' = errorCountRef + 1
  /\ hasError' = (hasError \/ Escalates(errorCountRef'))
  /\ UNCHANGED << walkVars, notErrVars, storeVars >>

\* window.location.reload(): the page is unloaded, with the callbacks it had
\* scheduled, and mounted again.
Reload ==
  /\ params' = defaultParams
  /\ isAnimating' = FALSE
  /\ gltfError' = FALSE
  /\ animFrameRef' = NULL
  /\ rafPending' = {}
  /\ lastFrame' = NoFrame
  /\ poseAtCall' = NoPose
  /\ lastEvent' = "reload"
  /\ sinceReset' = FALSE
  /\ hasError' = FALSE
  /\ errorCountRef' = 0
  /\ MountEffects
  /\ UNCHANGED << disturbances, notErrVars >>

\* The page with its error handler.  The control panel is rendered only
\* while hasError is false, so only then can its buttons and sliders be
\* used; callbacks already scheduled keep running behind the fallback.
ErrNext ==
  \/ HandleError
  \/ Reload
  \/ ~hasError /\ \E e \in SliderEdits : HandleParamChange(e[1], e[2])
  \/ ~hasError /\ ResetValues
  \/ ~hasError /\ AnimateWalk
  \/ \E c \in rafPending : Frame(c, FrameGap)
  \/ \E c \in rafPending : Restore(c, FrameGap)

SpecErrors == Init /\ [][ErrNext]_vars

\* C12: hasError is false while fewer than three window errors have been
\* received since mount and true from the third on, and only a reload of the
\* page makes it false again.
C12_Threshold == hasError = (errorCountRef >= 3)
C12_OnlyReloadClears == (hasError /\ ~hasError') => lastEvent' = "reload"
C12_EscalatesOnThirdError == [](C12_Threshold) /\ [][C12_OnlyReloadClears]_vars
C12_Witness ==
  /\ hasError
  /\ errorCountRef = 3
  /\ rafPending # {}


----------------------------------------------------------------------------
(* The page on a browser whose local storage a previous session may have   *)
(* written, from before its first render.                                  *)

\* A record a previous session saved: the ankle slider moved.
EarlierParams == [ defaultParams EXCEPT !.ankleAngle = -20000 ]
ModelPaths == << "/models/leg1.glb", "/models/leg2.glb", "/models/leg3.glb",
                 "/models/leg.glb" >>

\* What local storage may hold when the page is opened.
InitialStorages ==
  { [ k \in { STORAGE_KEY, GLTF_KEY } |-> IF k = STORAGE_KEY THEN p ELSE NoItem ] :
      p \in { NoItem, NullText, BrokenText, Stringify(defaultParams),
              Stringify(EarlierParams) } }
    \cup { [ k \in { STORAGE_KEY, GLTF_KEY } |->
               IF k = STORAGE_KEY THEN Stringify(EarlierParams)
               ELSE UrlText(ModelPaths[4]) ] }

Mounted == storedRef # NoStored

StoreSpecInit ==
  /\ WalkInit
  /\ probe = NoProbe
  /\ file = NoFile
  /\ validation = NoValidation
  /\ AsideInit
  /\ localStorage \in InitialStorages
  /\ storedRef = NoStored
  /\ gltfUrl = ""
  /\ storageFull \in BOOLEAN
  /\ lastSave = NoSave
  /\ refusedKeys = {}

\* The first render and its effects.
Mount ==
  /\ ~Mounted
  /\ MountEffects
  /\ UNCHANGED << walkVars, probeVars, gltfVars, asideVars >>

\* The mounted page: its handlers and the frames of its animation.
StoreNext ==
  \/ Mount
  \/ Mounted /\ \E e \in SliderEdits : HandleParamChange(e[1], e[2])
  \/ Mounted /\ ResetValues
  \/ Mounted /\ AnimateWalk
  \/ \E c \in rafPending : Frame(c, FrameGap)
  \/ \E c \in rafPending : Restore(c, FrameGap)

SpecStore == StoreSpecInit /\ [][StoreNext]_vars

\* C13 as claimed: once the page has mounted and the save effect has run,
\* the entry "pierna:params" is the JSON text of the page's record.
C13_EntryIsJsonOfRecord ==
  Mounted => localStorage[STORAGE_KEY] = Stringify(params)
\* C13 as amended: once the page has mounted and the save effect has run,
\* unless the browser refused the latest write of the entry, the entry is
\* the JSON text of the page's record, or the record is still the defaults
\* and the entry is what the previous session left without a record in it
\* (absent, null or unparseable); either way useStoredParams loads the
\* page's record from it.
C13_EntryLoadsAsRecord ==
  (Mounted /\ STORAGE_KEY \notin refusedKeys) =>
    /\ \/ localStorage[STORAGE_KEY] = Stringify(params)
       \/ /\ localStorage[STORAGE_KEY] \in { NoItem, NullText, BrokenText }
          /\ params = defaultParams
    /\ LoadStored(localStorage, defaultParams).params = params
C13_Witness ==
  /\ Mounted
  /\ STORAGE_KEY \notin refusedKeys
  /\ lastEvent = "frame"
  /\ lastSave = [ fn |-> "save", called |-> TRUE, accepted |-> TRUE ]
  /\ localStorage[STORAGE_KEY] = Stringify(params)
  /\ params # defaultParams


----------------------------------------------------------------------------
(* CanvasScene: model discovery at mount, and the load of GLTFModel.       *)

\* What a HEAD request may do: answer with response.ok, answer without it,
\* or fail (fetch rejects).
ProbeOutcomes == { "ok", "not ok", "throws" }

\* findModel after the answer to probe k: "found" ends the search with the
\* path, "next" sends probe k + 1, "none" ends it without a model.
AfterProbeAbortOnThrow(outcome, k) ==
  IF outcome = "ok" THEN "found"
  ELSE IF outcome = "throws" \/ k = Len(ModelPaths) THEN "none"
  ELSE "next"
AfterProbe(outcome, k) ==
  IF outcome = "ok" THEN "found"
  ELSE IF k < Len(ModelPaths) THEN "next"
  ELSE "none"

\* The mount effect: gltfUrl is "" at mount, so findModel sets the status to
\* loading and sends the first HEAD request.
FindModel ==
  /\ probing = 0
  /\ probes = << >>
  /\ gltfUrl = ""
  /\ modelStatus' = "loading"
  /\ probing' = 1
  /\ lastEvent' = "findModel"
  /\ UNCHANGED << probes, modelLoad >>
  /\ UNCHANGED << params, isAnimating, gltfError, animFrameRef, rafPending,
                  lastFrame, poseAtCall, sinceReset, disturbances >>
  /\ UNCHANGED << probeVars, gltfVars, mgrVars, errVars, hookVars, extraVars, storeVars >>

\* The HEAD request in flight settles and findModel goes on.  When a path
\* is found the page re-renders with the url, its effect saves it,
\* GLTFModel mounts and starts loading it, and ControlPanel's effect on
\* gltfUrl sets its own status to found.
ProbeSettles(outcome) ==
  /\ probing > 0
  /\ probes' = Append(probes, [ path |-> ModelPaths[probing], outcome |-> outcome ])
  /\ LET then == AfterProbe(outcome, probing)
     IN  CASE then = "found" ->
                /\ gltfUrl' = ModelPaths[probing]
                /\ SaveGltfEffect
                /\ gltfError' = FALSE
                /\ modelStatus' = "loaded"
                /\ modelLoad' = "loading"
                /\ probing' = 0
                /\ lastEvent' = "found"
                /\ panelStatus' = "found"
            [] then = "next" ->
                /\ probing' = probing + 1
                /\ lastEvent' = "probe"
                /\ UNCHANGED << gltfError, modelStatus, modelLoad, storeVars >>
                /\ UNCHANGED panelStatus
            [] then = "none" ->
                /\ gltfError' = TRUE
                /\ modelStatus' = "error"
                /\ probing' = 0
                /\ lastEvent' = "not found"
                /\ UNCHANGED << modelLoad, storeVars >>
                /\ UNCHANGED panelStatus
  /\ UNCHANGED << params, isAnimating, animFrameRef, rafPending, lastFrame,
                  poseAtCall, sinceReset, disturbances >>
  /\ UNCHANGED << probeVars, gltfVars, mgrVars, errVars, hookVars,
                  notPanelExtraVars >>

\* (A loader that starts the load again when it fails.)
ModelLoadRetries(ok) ==
  /\ modelLoad = "loading"
  /\ modelLoad' = IF ok THEN "loaded" ELSE "loading"
  /\ gltfError' = ~ok
  /\ modelStatus' = IF ok THEN "loaded" ELSE "error"
  /\ lastEvent' = IF ok THEN "model loaded" ELSE "model failed"
  /\ UNCHANGED << probing, probes >>
  /\ UNCHANGED << params, isAnimating, animFrameRef, rafPending, lastFrame,
                  poseAtCall, sinceReset, disturbances >>
  /\ UNCHANGED << probeVars, gltfVars, mgrVars, errVars, hookVars, extraVars, storeVars >>

\* loader.load settles.  Success: onError(null), onLoaded().  Failure:
\* onError(message), which sets the status to error and so unmounts
\* GLTFModel.
ModelLoadSettles(ok) ==
  /\ modelLoad = "loading"
  /\ modelLoad' = IF ok THEN "loaded" ELSE "failed"
  /\ gltfError' = ~ok
  /\ modelStatus' = IF ok THEN "loaded" ELSE "error"
  /\ lastEvent' = IF ok THEN "model loaded" ELSE "model failed"
  /\ UNCHANGED << probing, probes >>
  /\ UNCHANGED << params, isAnimating, animFrameRef, rafPending, lastFrame,
                  poseAtCall, sinceReset, disturbances >>
  /\ UNCHANGED << probeVars, gltfVars, mgrVars, errVars, hookVars, extraVars, storeVars >>

\* The "Cerrar" button of the error banner: setGltfError(null).
CloseBanner ==
  /\ gltfError
  /\ gltfError' = FALSE
  /\ lastEvent' = "close banner"
  /\ UNCHANGED << params, isAnimating, animFrameRef, rafPending, lastFrame,
                  poseAtCall, sinceReset, disturbances >>
  /\ UNCHANGED << probeVars, gltfVars, asideVars, storeVars >>

SceneNext ==
  \/ FindModel
  \/ \E outcome \in ProbeOutcomes : ProbeSettles(outcome)
  \/ \E ok \in BOOLEAN : ModelLoadSettles(ok)
  \/ CloseBanner
  \/ ResetValues
  \/ \E e \in SliderEdits : HandleParamChange(e[1], e[2])

SpecScene == Init /\ [][SceneNext]_vars

\* C14: the probes go through /models/leg1.glb, leg2.glb, leg3.glb, leg.glb
\* in that order; a probe is sent only after every earlier one answered
\* not-OK or failed; the search ends at the first OK answer with gltfUrl that
\* path, gltfError cleared and the status loaded; it ends without a model
\* only after all four probes, with gltfUrl empty, gltfError set and the
\* status error.
C14_DiscoveryInOrder ==
  /\ Len(probes) <= Len(ModelPaths)
  /\ \A i \in 1..Len(probes) :
       /\ probes[i].path = ModelPaths[i]
       /\ i < Len(probes) => probes[i].outcome # "ok"
  /\ probing > 0 =>
       /\ probing = Len(probes) + 1
       /\ \A i \in 1..Len(probes) : probes[i].outcome # "ok"
  /\ lastEvent = "found" =>
       /\ probes[Len(probes)].outcome = "ok"
       /\ gltfUrl = probes[Len(probes)].path
       /\ ~gltfError
       /\ modelStatus = "loaded"
  /\ lastEvent = "not found" =>
       /\ Len(probes) = Len(ModelPaths)
       /\ \A i \in 1..Len(probes) : probes[i].outcome # "ok"
       /\ gltfUrl = ""
       /\ gltfError
       /\ modelStatus = "error"
  /\ (probing = 0 /\ probes # << >>) =>
       \/ probes[Len(probes)].outcome = "ok"
       \/ Len(probes) = Len(ModelPaths)
C14_Witness ==
  /\ lastEvent = "found"
  /\ Len(probes) = 3
  /\ probes[1].outcome = "throws"
  /\ probes[2].outcome = "not ok"
  /\ gltfUrl = "/models/leg3.glb"


\* C15: once the status is error it stays error, and from then on no step
\* sends a probe, answers one or starts a model load, whether the banner is
\* closed or Reset is pressed.
C15_ErrorIsFinal ==
  modelStatus = "error" =>
    /\ modelStatus' = "error"
    /\ probing = 0 /\ probing' = 0
    /\ probes' = probes
    /\ modelLoad # "loading" /\ modelLoad' # "loading"
C15_NoRetryAfterError == [][C15_ErrorIsFinal]_vars
C15_Witness ==
  /\ modelStatus = "error"
  /\ modelLoad = "failed"
  /\ lastEvent = "reset"
  /\ ~gltfError


-----------------------------------------------------------------------------
(* Clicks on Animate that are handled before the page renders again: the    *)
(* handler of the second click is the closure of the render before the      *)
(* first one, in which isAnimating is FALSE and params is the record at the *)
(* first click.                                                             *)

\* (A guard that cancels nothing.)
PendingKept(pending, ref) == pending
\* The pending callbacks after animateWalk's cancellation of the frame held
\* in animFrameRef.
PendingAfterCancel(pending, ref) ==
  IF ref # NULL THEN cancelAnimationFrame(pending, ref) ELSE pending

\* animateWalk() of the render before the last click on Animate.
AnimateWalkAgain ==
  /\ lastEvent \in {"animate", "animate again"}
  /\ poseAtCall = params
  /\ LET pending == PendingAfterCancel(rafPending, animFrameRef)
         id == requestAnimationFrame(pending, animFrameRef)
     IN  /\ rafPending' =
               pending \cup {[ id |-> id, fn |-> "frame", st |-> NewWalkState(poseAtCall) ]}
         /\ animFrameRef' = id
  /\ isAnimating' = TRUE
  /\ lastEvent' = "animate again"
  /\ UNCHANGED << params, gltfError, disturbances, poseAtCall, sinceReset, lastFrame >>
  /\ UNCHANGED << probeVars, gltfVars, asideVars, storeVars >>

ClicksNext ==
  \/ \E e \in SliderEdits : HandleParamChange(e[1], e[2])
  \/ ResetValues
  \/ AnimateWalk
  \/ AnimateWalkAgain
  \/ \E c \in rafPending, dt \in Gaps : Frame(c, dt)
  \/ \E c \in rafPending, dt \in Gaps : Restore(c, dt)

SpecClicks == Init /\ [][ClicksNext]_vars

\* C16: at most one animation callback is pending, and a pending callback is
\* the one whose id animFrameRef holds, also after a second click on Animate
\* handled by the closure that saw isAnimating FALSE.
C16_OneLoopLive ==
  /\ Cardinality(rafPending) <= 1
  /\ \A c \in rafPending : c.id = animFrameRef
C16_Witness ==
  /\ lastEvent = "animate again"
  /\ Cardinality(rafPending) = 1
  /\ \E c \in rafPending : c.id = animFrameRef /\ c.id # 1


-----------------------------------------------------------------------------
(* The two validators on the same file: analyzeGLTFFile of gltf-utils and   *)
(* analyzeGLTF of GLTFFileManager.                                          *)

\* const result = await analyzeGLTF(file); a rejection leaves Rejected.
AnalyzeInManager ==
  /\ analysis = NoAnalysis
  /\ analysis' = analyzeGLTF(file)
  /\ mainDoc' = file
  /\ UNCHANGED << files, analyzing, batches >>
  /\ UNCHANGED notMgrVars

AgreeNext == AnalyzeFile \/ AnalyzeInManager

SpecAgree == GltfInit /\ [][AgreeNext]_vars

BothAnalyzed == validation # NoValidation /\ analysis # NoAnalysis

\* C17: once both validators have analysed the file, analyzeGLTF has returned
\* a result, and the two results have the same isValid, the same isGLB and
\* the same set of external resource uris.
C17_ValidatorsAgree ==
  BothAnalyzed =>
    /\ analysis # Rejected
    /\ analysis.isValid = validation.isValid
    /\ analysis.isGLB = validation.isGLB
    /\ { analysis.externalFiles[i] : i \in 1..Len(analysis.externalFiles) }
         = { validation.externalFiles[i].uri : i \in 1..Len(validation.externalFiles) }


-----------------------------------------------------------------------------
(* WalkingAnimator: start, stop and the frame callback `update`.  The       *)
(* animator's record holds its fields isPlaying, startTime and animationId  *)
(* (0 for null), the frames it has requested and the browser has not yet    *)
(* run or cancelled, the clock Date.now() reads, the number of calls and    *)
(* frames so far, the number of onUpdate calls so far and the elapsed time  *)
(* of the last one.                                                         *)

\* Largest number of calls and frames of one animator.
MaxAnimatorSteps == 5

\* private cycleDuration = 2000, in ms; and the times that pass between two
\* readings of Date.now().
animatorCycleDuration == 2000
ClockSteps == {700, 1500}

\* update(): nothing when not playing; otherwise onUpdate is called with the
\* pose at the elapsed time and the next frame is requested.
update(a) ==
  IF ~a.isPlaying THEN a
  ELSE LET id == requestAnimationFrame({ [ id |-> i ] : i \in a.pending },
                                       a.animationId)
       IN  [ a EXCEPT !.updates = a.updates + 1,
                      !.elapsed = (a.now - a.startTime) % animatorCycleDuration,
                      !.animationId = id,
                      !.pending = a.pending \cup {id} ]

\* start()
start(a) ==
  IF a.isPlaying THEN a
  ELSE update([ a EXCEPT !.isPlaying = TRUE, !.startTime = a.now ])

\* (A stop that lets the requested frame stand.)
stopWithoutCancel(a) ==
  [ a EXCEPT !.isPlaying = FALSE, !.animationId = NULL ]
\* stop()
stop(a) ==
  IF a.animationId # NULL
  THEN [ a EXCEPT !.isPlaying = FALSE,
                  !.pending = a.pending \ {a.animationId},
                  !.animationId = NULL ]
  ELSE [ a EXCEPT !.isPlaying = FALSE ]

\* Date.now() at the next call: dt ms later than at the last one.
Later(a, dt) == [ a EXCEPT !.now = a.now + dt, !.steps = a.steps + 1 ]

AnimatorStart(dt) ==
  /\ animator.steps < MaxAnimatorSteps
  /\ animator' = [ Later(start(animator), dt) EXCEPT
                     !.last = IF animator.isPlaying THEN "start ignored" ELSE "start" ]
  /\ UNCHANGED << walkVars, probeVars, gltfVars, mgrVars, errVars, sceneVars,
                  storeVars, loaderVars, lastArg, extraVars >>

AnimatorStop(dt) ==
  /\ animator.steps < MaxAnimatorSteps
  /\ animator' = [ Later(stop(animator), dt) EXCEPT !.last = "stop" ]
  /\ UNCHANGED << walkVars, probeVars, gltfVars, mgrVars, errVars, sceneVars,
                  storeVars, loaderVars, lastArg, extraVars >>

\* The browser runs the requested frame id.
AnimatorFrame(id, dt) ==
  /\ animator.steps < MaxAnimatorSteps
  /\ id \in animator.pending
  /\ animator' = [ Later(update([ animator EXCEPT !.pending = animator.pending \ {id} ]), dt)
                     EXCEPT !.last = "frame" ]
  /\ UNCHANGED << walkVars, probeVars, gltfVars, mgrVars, errVars, sceneVars,
                  storeVars, loaderVars, lastArg, extraVars >>

AnimatorNext ==
  \/ \E dt \in ClockSteps : AnimatorStart(dt)
  \/ \E dt \in ClockSteps : AnimatorStop(dt)
  \/ \E id \in animator.pending, dt \in ClockSteps : AnimatorFrame(id, dt)

SpecAnimator == Init /\ [][AnimatorNext]_vars

\* C18: from a stop() until the next start() that takes effect, isAnimating()
\* is false, no frame is pending and onUpdate is not called; a start() on a
\* playing animator keeps startTime, requests no frame and calls nothing.
C18_Stopped == animator.last = "stop"
C18_StoppedIsQuiet ==
  C18_Stopped => ~animator.isPlaying /\ animator.pending = {}
C18_Step ==
  /\ (C18_Stopped /\ animator'.last # "start") =>
       animator'.updates = animator.updates
  /\ animator'.last = "start ignored" =>
       /\ animator'.startTime = animator.startTime
       /\ animator'.pending = animator.pending
       /\ animator'.animationId = animator.animationId
       /\ animator'.updates = animator.updates
       /\ animator'.isPlaying
  /\ Cardinality(animator'.pending) <= 1
C18_StopIsImmediate == [](C18_StoppedIsQuiet) /\ [][C18_Step]_vars
C18_Witness ==
  /\ animator.last = "stop"
  /\ animator.updates >= 2
  /\ animator.pending = {}


-----------------------------------------------------------------------------
(* useGLTFManager: loadFile, split at its await, and reset.                 *)

\* Largest number of loadFile calls.
MaxLoads == 2

\* URL.createObjectURL(file): a url no earlier call returned.
BlobUrls == << "blob:1", "blob:2", "blob:3", "blob:4" >>
createModelURL(n) == BlobUrls[n]

\* The files handed to loadFile: .gltf files whose text is not JSON, is the
\* JSON null, is a document without asset, is a complete document; a .gltf
\* file that cannot be read; .glb files with and without the magic number.
GltfName == << "m", ".", "g", "l", "t", "f" >>
GlbName == << "m", ".", "g", "l", "b" >>
LoadFiles ==
  { TextFile(GltfName, [ kind |-> "SyntaxError" ]),
    TextFile(GltfName, [ kind |-> "null" ]),
    TextFile(GltfName, [ kind |-> "object", asset |-> [ kind |-> "absent" ],
                         buffers |-> [ kind |-> "absent", items |-> << >> ],
                         images |-> [ kind |-> "absent", items |-> << >> ] ]),
    ManagerDoc,
    UnreadableFile(GltfName),
    BinaryFile(GlbName, << 103, 108, 84, 70, 2, 0, 0, 0 >>),
    BinaryFile(GlbName, << 0, 0, 0, 0, 2, 0, 0, 0 >>) }

\* loadFile(file) up to its await: setLoading(true), analyzeGLTFFile called.
LoadFile(f) ==
  /\ LET n == 1 + Cardinality(loads) + lastLoad.done
     IN  /\ n <= MaxLoads
         /\ loads' = loads \cup { [ file |-> f, n |-> n ] }
  /\ loading' = TRUE
  /\ UNCHANGED << modelUrl, lastLoad, objectUrls >>
  /\ UNCHANGED << walkVars, probeVars, gltfVars, mgrVars, errVars, sceneVars,
                  storeVars, animVars, lastArg, extraVars >>

\* loadFile after its await: the result is stored, a valid file gets an
\* object url; a rejection is caught and logged; finally setLoading(false).
LoadSettles(c) ==
  /\ c \in loads
  /\ loads' = loads \ {c}
  /\ LET result == analyzeGLTFFile(c.file)
     IN  /\ validation' = IF result = Rejected THEN validation ELSE result
         /\ modelUrl' = IF result # Rejected /\ result.isValid
                        THEN createModelURL(c.n) ELSE modelUrl
         /\ objectUrls' =
              IF result # Rejected /\ result.isValid
              THEN [ objectUrls EXCEPT !.created =
                       objectUrls.created \cup
                         { [ url |-> createModelURL(c.n), file |-> c.file ] } ]
              ELSE objectUrls
         /\ lastLoad' = [ file |-> c.file, n |-> c.n,
                          done |-> 1 + lastLoad.done,
                          outcome |-> IF result = Rejected THEN "caught" ELSE "returned" ]
  /\ loading' = FALSE
  /\ UNCHANGED file
  /\ UNCHANGED << walkVars, probeVars, mgrVars, errVars, sceneVars, storeVars,
                  animVars, lastArg, extraVars >>

\* revokeModelURL(url): URL.revokeObjectURL on a url that starts with
\* "blob:", as every url createModelURL returned does.
revokeModelURL(urls, url) ==
  IF url \in { BlobUrls[i] : i \in 1..Len(BlobUrls) }
  THEN [ urls EXCEPT !.revoked = urls.revoked \cup {url} ]
  ELSE urls

\* reset()
LoaderReset ==
  /\ modelUrl # "" \/ validation # NoValidation
  /\ objectUrls' = revokeModelURL(objectUrls, modelUrl)
  /\ modelUrl' = ""
  /\ validation' = NoValidation
  /\ UNCHANGED << file, loading, loads, lastLoad >>
  /\ UNCHANGED << walkVars, probeVars, mgrVars, errVars, sceneVars, storeVars,
                  animVars, lastArg, extraVars >>

LoaderNext ==
  \/ \E f \in LoadFiles : LoadFile(f)
  \/ \E c \in loads : LoadSettles(c)
  \/ LoaderReset

SpecLoader == Init /\ [][LoaderNext]_vars

\* A .gltf file whose text JSON.parse rejects or parses to null.
MalformedGltf(f) ==
  f.kind = "text" /\ ~IsGlbName(f.name) /\ f.json.kind \in {"SyntaxError", "null"}

\* C20: the step in which a loadFile call on a malformed .gltf file completes
\* stores a validation with isValid false and a non-empty errors list, ends
\* by returning (nothing is thrown to the caller), leaves modelUrl as it
\* was and leaves loading false.
C20_Step ==
  \A c \in loads \ loads' :
    MalformedGltf(c.file) =>
      /\ validation' # NoValidation
      /\ ~validation'.isValid
      /\ validation'.errors # << >>
      /\ lastLoad'.file = c.file /\ lastLoad'.outcome = "returned"
      /\ modelUrl' = modelUrl
      /\ loading' = FALSE
C20_MalformedCaught == [][C20_Step]_vars
C20_Witness ==
  /\ lastLoad # NoLoad
  /\ MalformedGltf(lastLoad.file)
  /\ lastLoad.n = 2
  /\ modelUrl = createModelURL(1)
  /\ validation # NoValidation
  /\ ~loading


-----------------------------------------------------------------------------
(* useStoredParams on its own: a component renders the hook and calls save, *)
(* saveGltf and clear with arguments of its choice.                         *)

HookRecords ==
  { defaultParams, EarlierParams, [ defaultParams EXCEPT !.kneeAngle = 6000 ] }
HookUrls == { ModelPaths[1], ModelPaths[4] }

\* What the rest of the program does while the hook is called: nothing.
HookFrame ==
  UNCHANGED << walkVars, probeVars, gltfVars, mgrVars, errVars, sceneVars,
               animVars, loaderVars, gltfUrl, extraVars >>

\* The first render of the hook.
HookMount ==
  /\ ~Mounted
  /\ storedRef' = LoadStored(localStorage, defaultParams)
  /\ lastArg' = [ fn |-> "mount" ]
  /\ UNCHANGED << localStorage, storageFull, lastSave, refusedKeys >>
  /\ HookFrame

\* save(next)
SaveCall(next) ==
  /\ Mounted
  /\ \E accepted \in Outcomes :
       Stores("save", STORAGE_KEY,
              save(storedRef, localStorage, next, accepted), accepted)
  /\ lastArg' = [ fn |-> "save", next |-> next ]
  /\ HookFrame

\* saveGltf(url)
SaveGltfCall(url) ==
  /\ Mounted
  /\ \E accepted \in Outcomes :
       Stores("saveGltf", GLTF_KEY,
              saveGltf(storedRef, localStorage, url, accepted), accepted)
  /\ lastArg' = [ fn |-> "saveGltf", url |-> url ]
  /\ HookFrame

\* clear(): the in-memory copy is the defaults without a url, and both
\* entries are removed.
ClearCall ==
  /\ Mounted
  /\ storedRef' = [ params |-> defaultParams, gltfUrl |-> NoUrl ]
  /\ localStorage' = EmptyStorage
  /\ refusedKeys' = {}
  /\ lastSave' = [ fn |-> "clear", called |-> TRUE, accepted |-> TRUE ]
  /\ lastArg' = [ fn |-> "clear" ]
  /\ UNCHANGED storageFull
  /\ HookFrame

HookNext ==
  \/ HookMount
  \/ \E next \in HookRecords : SaveCall(next)
  \/ \E url \in HookUrls : SaveGltfCall(url)
  \/ ClearCall

SpecHook == StoreSpecInit /\ [][HookNext]_vars

\* The step is a call of fn that changed something.
C19_Called(fn) == lastArg'.fn = fn

\* C19 as claimed: save(next) with the JSON of the in-memory record changes
\* nothing and writes nothing; any other save(next) leaves next in memory and
\* its JSON in "pierna:params"; save leaves "pierna:gltf" alone and saveGltf
\* leaves "pierna:params" alone.
C19_StepAsClaimed ==
  /\ C19_Called("save") =>
       /\ IF Stringify(storedRef.params) = Stringify(lastArg'.next)
          THEN /\ storedRef' = storedRef
               /\ localStorage' = localStorage
               /\ ~lastSave'.called
          ELSE /\ storedRef'.params = lastArg'.next
               /\ localStorage'[STORAGE_KEY] = Stringify(lastArg'.next)
       /\ localStorage'[GLTF_KEY] = localStorage[GLTF_KEY]
  /\ C19_Called("saveGltf") =>
       localStorage'[STORAGE_KEY] = localStorage[STORAGE_KEY]
C19_SaveWritesOnChange == [][C19_StepAsClaimed]_vars

\* C19, amended: as claimed, except that a save(next) whose setItem call
\* throws leaves next in memory and the entry as it was.
C19_StepAmended ==
  /\ C19_Called("save") =>
       /\ IF Stringify(storedRef.params) = Stringify(lastArg'.next)
          THEN /\ storedRef' = storedRef
               /\ localStorage' = localStorage
               /\ ~lastSave'.called
          ELSE /\ storedRef'.params = lastArg'.next
               /\ storedRef'.gltfUrl = storedRef.gltfUrl
               /\ lastSave'.called
               /\ localStorage'[STORAGE_KEY] =
                    IF lastSave'.accepted THEN Stringify(lastArg'.next)
                    ELSE localStorage[STORAGE_KEY]
       /\ localStorage'[GLTF_KEY] = localStorage[GLTF_KEY]
  /\ C19_Called("saveGltf") =>
       /\ localStorage'[STORAGE_KEY] = localStorage[STORAGE_KEY]
       /\ storedRef'.params = storedRef.params
C19_SaveWritesUnlessRefused == [][C19_StepAmended]_vars
C19_Witness ==
  /\ lastArg.fn = "save"
  /\ lastSave.fn = "save" /\ lastSave.called /\ lastSave.accepted
  /\ storedRef.params = lastArg.next
  /\ localStorage[STORAGE_KEY] = Stringify(lastArg.next)
  /\ localStorage[GLTF_KEY] = UrlText(ModelPaths[1])


-----------------------------------------------------------------------------
(* DataModal: the rubric it computes from its props params and gltfUrl and  *)
(* from the current date, the total score and the classification of the     *)
(* text report.                                                             *)

\* archLength, h's half and a (in millionths: toFixed(6)) of the modal.
archLengthOf(p) == p.footLength - p.heelRadius - 10 * Milli
halfOf(p) == archLengthOf(p) \div 2
aMicro(p) ==
  LET half == halfOf(p)
      sq == (half * half) \div 10000
  IN  IF half = 0 THEN 0
      ELSE IF sq = 0 THEN 100 * Milli * Milli
      ELSE Round(p.archHeight * 100 * Milli, sq)

\* functions: the three functions of the design.
functions(p) == << "Cuadratica", "Trigonometrica", "Lineal/Angular" >>

\* transformations: type and applied of the four entries.
transformations(p) ==
  << [ type |-> "Traslacion", applied |-> p.verticalShift # 0 ],
     [ type |-> "Rotacion", applied |-> p.footRotation # 0 ],
     [ type |-> "Rotacion", applied |-> p.ankleAngle # 0 ],
     [ type |-> "Rotacion", applied |-> p.kneeAngle # 0 ] >>

\* polarCoords.radius !== "0.000": sqrt((footLength/2)^2 + archHeight^2)
\* written with three decimals is not zero.
hasPolar(p) == p.footLength * p.footLength + 4 * p.archHeight * p.archHeight >= 1

SomeApplied(p, type) ==
  \E i \in 1..Len(transformations(p)) :
    transformations(p)[i].type = type /\ transformations(p)[i].applied

\* The deadline of criterion 15 is day 0: new Date() <= 2025-12-12T23:59:59.
OnTime(today) == today <= 0

\* points: cond ? full : part
Points(yes, full, part) == IF yes THEN full ELSE part

\* rubric: the points of criteria 1 to 15.
rubric(p, url, today) ==
  LET hasFunctions == Len(functions(p)) >= 3
      hasTranslation == SomeApplied(p, "Traslacion")
      hasRotation == SomeApplied(p, "Rotacion")
      hasCalculations == aMicro(p) # 0
  IN  << Points(hasFunctions, 3, 2),
         Points(hasTranslation, 3, 2),
         Points(hasRotation, 3, 2),
         Points(hasPolar(p), 3, 2),
         Points(hasCalculations, 3, 2),
         Points(url # "", 2, 1),
         Points(hasFunctions, 2, 1),
         Points(TRUE, 1, 1),
         Points(p.springStiffness > 0, 2, 1),
         Points(TRUE, 2, 2),
         Points(TRUE, 2, 2),
         Points(hasCalculations, 3, 2),
         Points(hasTranslation /\ hasRotation, 3, 2),
         Points(TRUE, 2, 2),
         Points(OnTime(today), 3, 1) >>

\* totalScore: Object.values(rubric).reduce((sum, item) => sum + item.points, 0)
RECURSIVE SumOf(_)
SumOf(s) == IF s = << >> THEN 0 ELSE Head(s) + SumOf(Tail(s))
totalScore(r) == SumOf(r)

\* Clasificacion of the text report.
Classification(score) ==
  IF score >= 40 THEN "EXCELENTE"
  ELSE IF score >= 35 THEN "MUY BUENO"
  ELSE IF score >= 30 THEN "BUENO"
  ELSE IF score >= 25 THEN "SATISFACTORIO"
  ELSE "NECESITA MEJORAR"
Bands == { "EXCELENTE", "MUY BUENO", "BUENO", "SATISFACTORIO", "NECESITA MEJORAR" }

\* The props the modal is opened with: records whose slider fields are the
\* ends of the slider ranges or the defaults, with and without a model url;
\* and the date: before, on and after the deadline.
RubricRecords ==
  { [ defaultParams EXCEPT !.footLength = fl, !.heelRadius = hr,
                           !.archHeight = ah, !.verticalShift = vs,
                           !.footRotation = fr, !.ankleAngle = an,
                           !.kneeAngle = kn ] :
      fl \in {20000, 26000, 35000}, hr \in {3000, 5000, 7000},
      ah \in {2000, 4000, 8000}, vs \in {0, 20000}, fr \in {0, 45000},
      an \in {0, -85000}, kn \in {0, 5000} }
RubricUrls == { "", ModelPaths[1] }
RubricDays == { -1, 0, 1 }

\* The modal is opened: it renders with its props on the given day.
OpenModal(p, url, today) ==
  /\ ~modal.open
  /\ modal' = [ open |-> TRUE, rendered |-> TRUE, params |-> p, gltfUrl |-> url, today |-> today,
                rubric |-> rubric(p, url, today),
                totalScore |-> totalScore(rubric(p, url, today)),
                classification |-> Classification(totalScore(rubric(p, url, today))) ]
  /\ UNCHANGED << notExtraVars, notModalExtraVars >>

\* onClose: the modal renders nothing.
CloseModal ==
  /\ modal.open
  /\ modal' = [ open |-> FALSE, rendered |-> TRUE ]
  /\ UNCHANGED << notExtraVars, notModalExtraVars >>

RubricNext ==
  \/ \E p \in RubricRecords, url \in RubricUrls, today \in RubricDays :
       OpenModal(p, url, today)
  \/ CloseModal

SpecRubric == Init /\ [][RubricNext]_vars

\* C21: the score the open modal shows is out of a maximum that can be had:
\* some props and date give the modal a total score of 45, and every
\* classification band of the text report is the band of some props and date.
C21_MaximumAttainable ==
  modal.open =>
  /\ \E p \in RubricRecords, url \in RubricUrls, today \in RubricDays :
       totalScore(rubric(p, url, today)) = 45
  /\ \A band \in Bands :
       \E p \in RubricRecords, url \in RubricUrls, today \in RubricDays :
         Classification(totalScore(rubric(p, url, today))) = band

\* What the rubric does give: between 31 and 37 points.
C21_ScoreRange == modal.open => modal.totalScore \in 31..37


\* C22: a frame whose nominal phase is swing or heel-strike computes its
\* ankle and arch targets with the foot unlocked, whatever the gaps between
\* the frames delivered.
C22_NoLockOffGround ==
  (LastWasFrame /\ LastPhase \in {"swing", "heel-strike"}) =>
    ~lastFrame.after.isFootLocked


\* C23: the step in which the page mounts (first render and its effects, no
\* user action) on a storage whose entry "pierna:params" is a record of an
\* earlier session, different from the defaults, leaves that entry as it was.
C23_MountStep ==
  (~Mounted /\ Mounted'
     /\ localStorage[STORAGE_KEY].kind = "json"
     /\ Parse(localStorage[STORAGE_KEY]) # defaultParams) =>
    localStorage'[STORAGE_KEY] = localStorage[STORAGE_KEY]
C23_MountKeepsStoredRecord == [][C23_MountStep]_vars



\* The page renders again in a step that changes its state.
PageRenders ==
  \/ params' # params
  \/ isAnimating' # isAnimating
  \/ gltfError' # gltfError

\* The `params` prop DataModal gets from the render of a step: stored.params,
\* which useStoredParams reads from storedRef.current while the page renders,
\* that is before the effects of that render call save.
DataModalParams == storedRef.params

\* C24: after every step in which the page renders, the record passed to
\* DataModal is the page's record.
C24_RenderStep == PageRenders => DataModalParams = params'
C24_ModalShowsCurrent == [][C24_RenderStep]_vars

\* The same for the render that ends a walk animation.
C24_FinishStep ==
  (PageRenders /\ lastEvent' = "finished") => DataModalParams = params'
C24_ModalShowsRestored == [][C24_FinishStep]_vars



-----------------------------------------------------------------------------
(* useWalkingAnimation: the hook's isAnimating state beside the animator    *)
(* animatorRef.current holds, after the effect of the first render has      *)
(* created it.                                                              *)

notWalkHookExtraVars == << modal, gltfModel, panelStatus, walkPose >>

\* startAnimation(): animatorRef.current.start(); setIsAnimating(true)
StartAnimation(dt) ==
  /\ animator.steps < MaxAnimatorSteps
  /\ animator' = [ Later(start(animator), dt) EXCEPT
                     !.last = IF animator.isPlaying THEN "start ignored" ELSE "start" ]
  /\ hookAnimating' = TRUE
  /\ UNCHANGED << walkVars, probeVars, gltfVars, mgrVars, errVars, sceneVars,
                  storeVars, loaderVars, lastArg, notWalkHookExtraVars >>

\* stopAnimation(): animatorRef.current.stop(); setIsAnimating(false)
StopAnimation(dt) ==
  /\ animator.steps < MaxAnimatorSteps
  /\ animator' = [ Later(stop(animator), dt) EXCEPT !.last = "stop" ]
  /\ hookAnimating' = FALSE
  /\ UNCHANGED << walkVars, probeVars, gltfVars, mgrVars, errVars, sceneVars,
                  storeVars, loaderVars, lastArg, notWalkHookExtraVars >>

\* toggleAnimation(): by the hook's state, stopAnimation() or startAnimation()
ToggleAnimation(dt) ==
  IF hookAnimating THEN StopAnimation(dt) ELSE StartAnimation(dt)

\* The component renders with an onParamChange of another identity: the
\* effect's cleanup stops the animator in animatorRef.current, the effect
\* puts a new WalkingAnimator there; neither calls setIsAnimating.
OnParamChangeChanges(dt) ==
  /\ animator.steps < MaxAnimatorSteps
  /\ animator' = [ NewAnimator EXCEPT !.now = animator.now + dt,
                                      !.steps = animator.steps + 1,
                                      !.pending = stop(animator).pending ]
  /\ UNCHANGED hookAnimating
  /\ UNCHANGED << walkVars, probeVars, gltfVars, mgrVars, errVars, sceneVars,
                  storeVars, loaderVars, lastArg, notWalkHookExtraVars >>

WalkHookNext ==
  \/ \E dt \in ClockSteps : StartAnimation(dt)
  \/ \E dt \in ClockSteps : StopAnimation(dt)
  \/ \E dt \in ClockSteps : ToggleAnimation(dt)
  \/ \E dt \in ClockSteps : OnParamChangeChanges(dt)
  \/ \E id \in animator.pending, dt \in ClockSteps : AnimatorFrame(id, dt)

SpecWalkHook == Init /\ [][WalkHookNext]_vars

\* C25: the hook's isAnimating is the current animator's isAnimating().
C25_HookAgreesWithAnimator == hookAnimating = animator.isPlaying



-----------------------------------------------------------------------------
(* GLTFModel's load effect: it runs after every render with another url,    *)
(* resets the state and starts loader.load; the load's callbacks run when   *)
(* the load completes.  A model and its bones are named by the number of    *)
(* the load that produced them (0 for null and for the empty bones).        *)

\* Largest number of url changes.
MaxUrlChanges == 3

ModelUrls == { "", "/models/a.glb", "/models/b.glb", "/models/c.glb" }

notModelExtraVars == << modal, hookAnimating, panelStatus, walkPose >>

\* The url prop changes to u and the effect runs: nothing on an empty url.
UrlChanges(u) ==
  /\ gltfModel.n < MaxUrlChanges
  /\ u # gltfModel.url
  /\ gltfModel' =
       IF u = ""
       THEN [ gltfModel EXCEPT !.url = u, !.n = gltfModel.n + 1 ]
       ELSE [ gltfModel EXCEPT
                !.url = u, !.n = gltfModel.n + 1,
                !.loading = TRUE, !.gltf = 0, !.bones = 0,
                !.inflight = gltfModel.inflight \cup
                               { [ url |-> u, n |-> gltfModel.n + 1 ] },
                !.last = gltfModel.n + 1 ]
  /\ UNCHANGED << notExtraVars, notModelExtraVars >>

\* loader.load's onLoad callback of load l: setBones, setGltf, setLoading(false)
ModelLoaded(l) ==
  /\ l \in gltfModel.inflight
  /\ gltfModel' = [ gltfModel EXCEPT !.inflight = gltfModel.inflight \ {l},
                                     !.bones = l.n, !.gltf = l.n,
                                     !.loading = FALSE ]
  /\ UNCHANGED << notExtraVars, notModelExtraVars >>

\* loader.load's onError callback of load l: setLoading(false)
ModelFailed(l) ==
  /\ l \in gltfModel.inflight
  /\ gltfModel' = [ gltfModel EXCEPT !.inflight = gltfModel.inflight \ {l},
                                     !.loading = FALSE ]
  /\ UNCHANGED << notExtraVars, notModelExtraVars >>

ModelNext ==
  \/ \E u \in ModelUrls : UrlChanges(u)
  \/ \E l \in gltfModel.inflight : ModelLoaded(l)
  \/ \E l \in gltfModel.inflight : ModelFailed(l)

SpecModel == Init /\ [][ModelNext]_vars

\* C26: once every load started has completed, the gltf and bones state are
\* null and empty or those of the load started for the current url; no
\* earlier load's callback has put its model there.
C26_LatestLoadWins ==
  gltfModel.inflight = {} =>
    /\ gltfModel.gltf \in { 0, gltfModel.last }
    /\ gltfModel.bones \in { 0, gltfModel.last }



\* C27: loading is true exactly while at least one loadFile call is waiting
\* on analyzeGLTFFile, overlapping calls included.
C27_LoadingWhileInFlight == loading = (loads # {})



\* C28: with no loadFile call in flight, a non-empty modelUrl comes with a
\* validation that is valid and is the analysis of the file modelUrl was
\* created for; and after a reset every object url created has been revoked.
C28_UrlOfValidFile ==
  (loads = {} /\ modelUrl # "") =>
    /\ validation # NoValidation
    /\ validation.isValid
    /\ \E o \in objectUrls.created :
         o.url = modelUrl /\ validation = analyzeGLTFFile(o.file)
C28_ResetStep ==
  (modelUrl' = "" /\ objectUrls' # objectUrls /\ loads = {}) =>
    \A o \in objectUrls'.created : o.url \in objectUrls'.revoked
C28_UrlsConsistent == [](C28_UrlOfValidFile) /\ [][C28_ResetStep]_vars
C28_UrlsRevoked == [][C28_ResetStep]_vars



-----------------------------------------------------------------------------
(* ControlPanel's status beside the discovery of CanvasScene.  The mount    *)
(* effect of CanvasScene runs and every HEAD request it sends settles:     *)
(* weak fairness of FindModel and of ProbeSettles.  Nothing is assumed of   *)
(* the user or of the model's load.                                         *)

SpecPanel ==
  /\ Init /\ [][SceneNext]_vars
  /\ WF_vars(FindModel)
  /\ WF_vars(\E outcome \in ProbeOutcomes : ProbeSettles(outcome))

\* The discovery has ended without a model.
DiscoveryFailed == probing = 0 /\ probes # << >> /\ gltfUrl = ""

\* C29: ControlPanel's status leaves "loading": it becomes "found" once a
\* non-empty gltfUrl is passed, and "not-found" or "error" when the
\* discovery ends without a model.
C29_PanelLeavesLoading ==
  /\ (gltfUrl # "") ~> (panelStatus = "found")
  /\ DiscoveryFailed ~> (panelStatus \in {"not-found", "error"})

\* What holds: the status is "found" whenever a url has been passed, and the
\* discovery does end.
C29_FoundWithUrl == (gltfUrl # "") => (panelStatus = "found")
C29_DiscoveryEnds == <>(gltfUrl # "" \/ DiscoveryFailed)



-----------------------------------------------------------------------------
(* WalkingAnimator.calculateWalkingPhase: the pose of the walk cycle.       *)
(* Angles and shifts are in thousandths, the interpolation parameter t is   *)
(* in thousandths of the phase, and progress is given as the elapsed time   *)
(* in the cycle, in ms of cycleDuration (progress 0.1 is 200 ms).           *)

\* easeInOutCubic(t)
easeInOutCubic(t) ==
  IF 2 * t < Milli
  THEN (4 * t * t * t) \div (Milli * Milli)
  ELSE Milli - ((2 * Milli - 2 * t) * (2 * Milli - 2 * t) * (2 * Milli - 2 * t))
                 \div (2 * Milli * Milli)

\* easeKnee(t)
easeKnee(t) ==
  IF 2 * t < Milli
  THEN (2 * t * t) \div Milli
  ELSE Milli - ((2 * Milli - 2 * t) * (2 * Milli - 2 * t)) \div (2 * Milli)

\* WalkingAnimator.lerp(start, end, t)
animatorLerp(a, b, t) == a + Mul(b - a, t)

\* The six branches of calculateWalkingPhase, each at its own t.
ContactoInicial(t) ==
  [ hipAngle |-> animatorLerp(-10000, -5000, easeInOutCubic(t)),
    kneeAngle |-> animatorLerp(5000, 10000, t),
    ankleAngle |-> animatorLerp(-5000, 0, t),
    footRotation |-> 0,
    stepAngle |-> animatorLerp(-5000, 0, t),
    verticalShift |-> animatorLerp(0, 500, t) ]
ApoyoMedio(t) ==
  [ hipAngle |-> animatorLerp(-5000, 10000, easeInOutCubic(t)),
    kneeAngle |-> animatorLerp(10000, 15000, easeKnee(t)),
    ankleAngle |-> animatorLerp(0, 10000, t),
    footRotation |-> 0,
    stepAngle |-> animatorLerp(0, 3000, t),
    verticalShift |-> animatorLerp(500, 1000, t) ]
Despegue(t) ==
  [ hipAngle |-> animatorLerp(10000, 20000, easeInOutCubic(t)),
    kneeAngle |-> animatorLerp(15000, 40000, easeKnee(t)),
    ankleAngle |-> animatorLerp(10000, 20000, t),
    footRotation |-> 0,
    stepAngle |-> animatorLerp(3000, 10000, t),
    verticalShift |-> animatorLerp(1000, 2000, t) ]
BalanceoInicial(t) ==
  [ hipAngle |-> animatorLerp(20000, 30000, easeInOutCubic(t)),
    kneeAngle |-> animatorLerp(40000, 70000, easeKnee(t)),
    ankleAngle |-> animatorLerp(20000, 10000, t),
    footRotation |-> 0,
    stepAngle |-> animatorLerp(10000, 5000, t),
    verticalShift |-> animatorLerp(2000, 4000, t) ]
\* (A swing that starts from a knee of 60 degrees.)
BalanceoMedioLowKnee(t) ==
  [ hipAngle |-> animatorLerp(30000, 10000, easeInOutCubic(t)),
    kneeAngle |-> animatorLerp(60000, 50000, easeKnee(t)),
    ankleAngle |-> animatorLerp(10000, -5000, t),
    footRotation |-> 0,
    stepAngle |-> animatorLerp(5000, 0, t),
    verticalShift |-> animatorLerp(4000, 2000, t) ]
BalanceoMedio(t) ==
  [ hipAngle |-> animatorLerp(30000, 10000, easeInOutCubic(t)),
    kneeAngle |-> animatorLerp(70000, 50000, easeKnee(t)),
    ankleAngle |-> animatorLerp(10000, -5000, t),
    footRotation |-> 0,
    stepAngle |-> animatorLerp(5000, 0, t),
    verticalShift |-> animatorLerp(4000, 2000, t) ]
BalanceoFinal(t) ==
  [ hipAngle |-> animatorLerp(10000, -10000, easeInOutCubic(t)),
    kneeAngle |-> animatorLerp(50000, 5000, easeKnee(t)),
    ankleAngle |-> animatorLerp(-5000, -5000, t),
    footRotation |-> 0,
    stepAngle |-> animatorLerp(0, -5000, t),
    verticalShift |-> animatorLerp(2000, 0, t) ]

\* calculateWalkingPhase(progress), progress = elapsed / cycleDuration
calculateWalkingPhase(elapsed) ==
  IF elapsed < 200 THEN ContactoInicial((elapsed * Milli) \div 200)
  ELSE IF elapsed < 600 THEN ApoyoMedio(((elapsed - 200) * Milli) \div 400)
  ELSE IF elapsed < 1000 THEN Despegue(((elapsed - 600) * Milli) \div 400)
  ELSE IF elapsed < 1300 THEN BalanceoInicial(((elapsed - 1000) * Milli) \div 300)
  ELSE IF elapsed < 1700 THEN BalanceoMedio(((elapsed - 1300) * Milli) \div 400)
  ELSE BalanceoFinal(((elapsed - 1700) * Milli) \div 300)

\* POSE_PRESETS, the walking poses
POSE_PRESETS ==
  [ walking_contact |->
      [ hipAngle |-> -10000, kneeAngle |-> 5000, ankleAngle |-> -5000,
        footRotation |-> 0, stepAngle |-> -5000, verticalShift |-> 0 ],
    walking_midstance |->
      [ hipAngle |-> 10000, kneeAngle |-> 15000, ankleAngle |-> 10000,
        footRotation |-> 0, stepAngle |-> 3000, verticalShift |-> 1000 ],
    walking_pushoff |->
      [ hipAngle |-> 20000, kneeAngle |-> 40000, ankleAngle |-> 20000,
        footRotation |-> 0, stepAngle |-> 10000, verticalShift |-> 2000 ],
    walking_swing |->
      [ hipAngle |-> 30000, kneeAngle |-> 70000, ankleAngle |-> 10000,
        footRotation |-> 0, stepAngle |-> 5000, verticalShift |-> 4000 ] ]

\* The elapsed times at which a frame is computed: every 10 ms of the cycle.
CycleTimes == { 10 * i : i \in 0..199 }

notCycleExtraVars == << modal, hookAnimating, gltfModel, panelStatus >>

\* update() at the elapsed time e of the cycle: onUpdate(phase)
CycleFrame(e) ==
  /\ e # walkPose.elapsed
  /\ walkPose' = [ elapsed |-> e, pose |-> calculateWalkingPhase(e) ]
  /\ UNCHANGED << notExtraVars, notCycleExtraVars >>

CycleNext == \E e \in CycleTimes : CycleFrame(e)

SpecCycle == Init /\ [][CycleNext]_vars

\* C30: the pose handed to onUpdate has footRotation 0; at a phase boundary
\* it is the pose the earlier phase ends with (t = 1), at progress 0 the
\* pose the last phase ends with; and at progress 0, 0.3, 0.5 and 0.65 it is
\* the preset walking_contact, walking_midstance, walking_pushoff and
\* walking_swing.
C30_CycleContinuous ==
  LET e == walkPose.elapsed
      p == walkPose.pose
  IN  /\ p.footRotation = 0
      /\ e = 0 => p = BalanceoFinal(Milli) /\ p = POSE_PRESETS.walking_contact
      /\ e = 200 => p = ContactoInicial(Milli)
      /\ e = 600 => p = ApoyoMedio(Milli) /\ p = POSE_PRESETS.walking_midstance
      /\ e = 1000 => p = Despegue(Milli) /\ p = POSE_PRESETS.walking_pushoff
      /\ e = 1300 => p = BalanceoInicial(Milli) /\ p = POSE_PRESETS.walking_swing
      /\ e = 1700 => p = BalanceoMedio(Milli)
C30_Witness ==
  /\ walkPose.elapsed = 1300
  /\ walkPose.pose = POSE_PRESETS.walking_swing

====
